---------------------------- MODULE Spec2Model ----------------------------
(***************************************************************************)
(* Model of the resumable backfill orchestration of sumo_anycost_lambda.py *)
(* (SumoLogic -> CloudZero AnyCost adapter).                               *)
(*                                                                         *)
(* Eleven specifications share the variables below:                        *)
(*   SpecBackoff  one call of a function wrapped by backoff                *)
(*   SpecLoad   BackfillState.load_existing_state on any file content      *)
(*   SpecChunk  chunk_data_by_size applied to bounded record lists         *)
(*   SpecPost   CloudZero.post_anycost_stream, one upload call per step    *)
(*   SpecDay    process_day_data, one service of the pipeline per step     *)
(*   SpecRedo   process_day_data called again for the same day             *)
(*   SpecSearch  one call of SumoLogic.search_job_records_sync             *)
(*   Spec       lambda_handler in backfill mode: repeated runs of the      *)
(*              driver over one date range, sharing the state file         *)
(*   SpecAuto   Spec restricted to fresh runs and runs with automatic       *)
(*              resume                                                     *)
(*   SpecSeq    one run of the driver with the service loop and the chunk   *)
(*              loop expanded into steps                                   *)
(*   FairSpec   one run of the driver over any state file an earlier run    *)
(*              can leave, with weak fairness of the run's steps           *)
(*                                                                         *)
(* Calendar days of the range [backfill_start, backfill_end] are the       *)
(* integers 1..NumDays (day d is backfill_start + d - 1); NoDay stands for *)
(* Python's None.  A billing record is [id, sz, ml]: its position in the   *)
(* extractor's output, the length of its JSON serialization, and the       *)
(* length of its "time/usage_start" string.                                *)
(***************************************************************************)
EXTENDS Integers, Sequences, FiniteSets, Bags, TLC

VARIABLES
    \* ---- chunk_data_by_size / post_anycost_stream ----
    ppc,            \* position in the chunker / dispatcher call
    data,           \* the record list handed to the call
    operation,      \* CZAnycostOp member handed to post_anycost_stream, or the label handed to chunk_data_by_size
    max_size,       \* chunk_data_by_size's max_size argument
    dry_run_post,   \* DRY_RUN_MODE as read by post_anycost_stream
    label_given,    \* service_name and date were both passed
    chunks,         \* the list of chunks
    chunk_num,      \* number of chunks of the loop already handled
    results,        \* _handle_normal_mode's results list
    successful_chunks,
    uploads,        \* the upload calls issued to the sink: <<[operation, data, ok], ...>>
    artifacts,      \* the dry-run files written: <<[suffix, operation, data], ...>>
    sleeps,         \* number of inter-chunk time.sleep(0.5) calls
    post_ret,       \* what post_anycost_stream returned (or raised)
    \* ---- process_day_data ----
    dpc,            \* position in process_day_data
    svc_i,          \* index of the next service of the pipeline
    svc_log,        \* the calls made so far: <<[service, operation, outcome], ...>>
    pd_stats,       \* day_stats being built by process_day_data
    extracted,      \* what the extractors hold for the day: service index -> number of records
    earlier,        \* the calls made by earlier process_day_data calls for the same day
    \* ---- lambda_handler (backfill mode) ----
    pc,             \* position in lambda_handler
    DRY_RUN_MODE, RESUME_MODE, AUTO_RESUME, RESUME_DATE,   \* module globals
    file,           \* the state file of the range
    state,          \* the BackfillState object
    date_ranges,    \* days left to process in this run
    day_num,        \* index into date_ranges of the day being processed
    day_stats,      \* the day_stats of the day being processed
    daily_stats,    \* progress.daily_stats: <<[date, failed_services], ...>>
    prev_failed,    \* history: days that ended the previous run with failed services
    env,            \* the date strings of the process environment, as the run read them
    \* ---- SumoLogic.search_job_records_sync ----
    spc,            \* position in the call
    status,         \* the last answer of search_job_status: [state, recordCount]
    numrecords,     \* the call's numrecords
    iteration,      \* the page the fetch loop is at
    jobrecords,     \* number of records collected so far
    s_ret,          \* what the call returned: "records", "status", or "raised"
    \* ---- BackfillState.load_existing_state on any file content ----
    lpc,            \* position in the call
    content,        \* what the state file holds
    lstate,         \* the BackfillState object
    load_ret,       \* what the call returned, or "raised"
    \* ---- backoff ----
    bpc,            \* position in the wrapper
    tries,          \* the wrapper's tries
    delay,          \* the wrapper's delay, in milliseconds
    calls,          \* number of invocations of the wrapped function
    slept,          \* the time.sleep calls made: <<delay, ...>>
    lastException,  \* the wrapper's lastException
    b_ret           \* what the wrapper returned or raised to its caller

chunk_vars == <<ppc, data, operation, max_size, dry_run_post, label_given, chunks,
                chunk_num, results, successful_chunks, uploads, artifacts, sleeps, post_ret>>
day_vars == <<dpc, svc_i, svc_log, pd_stats, extracted, earlier>>
run_vars == <<pc, DRY_RUN_MODE, RESUME_MODE, AUTO_RESUME, RESUME_DATE, file, state,
              date_ranges, day_num, day_stats, daily_stats, prev_failed>>
load_vars == <<lpc, content, lstate, load_ret>>
backoff_vars == <<bpc, tries, delay, calls, slept, lastException, b_ret>>
setup_vars == <<env>>
search_vars == <<spc, status, numrecords, iteration, jobrecords, s_ret>>
lib_vars == <<load_vars, backoff_vars, setup_vars, search_vars>>
vars == <<chunk_vars, day_vars, run_vars, lib_vars>>

-----------------------------------------------------------------------------
(* Bounds *)

\* longest record list handed to the chunker / dispatcher
MaxRecs == 3
\* number of calendar days in [backfill_start, backfill_end]
NumDays == 3
\* number of times one day is processed
MaxPasses == 2

NoDay == 0
Days == 1..NumDays

-----------------------------------------------------------------------------
(* Payload sizes *)

SAFE_PAYLOAD_SIZE_BYTES == 8 * 1024 * 1024

\* len('{"operation": "", "data": [], "month": ""}') under json.dumps' default separators
EnvelopeFixedLen == 42
\* len(", "), json.dumps' item separator
ItemSepLen == 2

\* serialized lengths of the records drawn: two or three small ones fit a chunk,
\* the largest exceeds SAFE_PAYLOAD_SIZE_BYTES on its own
RecordSizes == {3000000, 5000000, 9000000}
\* len of "time/usage_start": a date ("2024-01-01") or an ISO timestamp with offset
MonthLens == {10, 25}
\* ceilings handed to chunk_data_by_size
MaxSizes == {1, 4 * 1024 * 1024, SAFE_PAYLOAD_SIZE_BYTES}

Labels == {"replace_hourly", "replace_drop", "sum"}

\* len(operation) of the three labels
OpLen(opstring) ==
    CASE opstring = "replace_hourly" -> 14
      [] opstring = "replace_drop" -> 12
      [] opstring = "sum" -> 3

RECURSIVE SumSz(_)
SumSz(recs) == IF recs = <<>> THEN 0 ELSE Head(recs).sz + SumSz(Tail(recs))

calculate_payload_size(recs, opstring) ==
    EnvelopeFixedLen + OpLen(opstring)
    + (IF recs # <<>> THEN recs[1].ml ELSE 0)
    + SumSz(recs)
    + (IF Len(recs) > 1 THEN ItemSepLen * (Len(recs) - 1) ELSE 0)

-----------------------------------------------------------------------------
(* chunk_data_by_size *)

\* the loop's test: the candidate does not fit and the running chunk is non-empty
ChunkIsFull_Late(test_size, limit, current_chunk) ==
    test_size > limit + 1000000 /\ current_chunk # <<>>

ChunkIsFull_Early(test_size, limit, current_chunk) ==
    current_chunk # <<>>

ChunkIsFull(test_size, limit, current_chunk) ==
    test_size > limit /\ current_chunk # <<>>

\* "Add the final chunk if it has data"
AddFinalChunk_Dropped(acc, current_chunk) == acc

AddFinalChunk(acc, current_chunk) ==
    IF current_chunk # <<>> THEN Append(acc, current_chunk) ELSE acc

RECURSIVE ChunkLoop(_, _, _, _, _, _)
ChunkLoop(recs, i, acc, current_chunk, opstring, limit) ==
    IF i > Len(recs)
    THEN AddFinalChunk(acc, current_chunk)
    ELSE LET record == recs[i]
             test_chunk == Append(current_chunk, record)
             test_size == calculate_payload_size(test_chunk, opstring)
         IN  IF ChunkIsFull(test_size, limit, current_chunk)
             THEN ChunkLoop(recs, i + 1, Append(acc, current_chunk), <<record>>, opstring, limit)
             ELSE ChunkLoop(recs, i + 1, acc, test_chunk, opstring, limit)

chunk_data_by_size(recs, opstring, limit) ==
    IF recs = <<>> THEN <<>> ELSE ChunkLoop(recs, 1, <<>>, <<>>, opstring, limit)

estimate_chunk_count(recs, opstring) ==
    IF recs = <<>>
    THEN [estimated_chunks |-> 0, total_size |-> 0]
    ELSE LET total_size == calculate_payload_size(recs, opstring)
             q == (total_size + SAFE_PAYLOAD_SIZE_BYTES - 1) \div SAFE_PAYLOAD_SIZE_BYTES
         IN  [estimated_chunks |-> IF q > 1 THEN q ELSE 1, total_size |-> total_size]

RECURSIVE Flatten(_)
Flatten(cs) == IF cs = <<>> THEN <<>> ELSE Head(cs) \o Flatten(Tail(cs))

\* the record lists an extractor can hand over: record i of the list has id i
RecordLists ==
    UNION { { [i \in 1..n |-> [id |-> i, sz |-> s[i], ml |-> m[i]]] :
              s \in [1..n -> RecordSizes], m \in [1..n -> MonthLens] } : n \in 0..MaxRecs }

\* the record lists whose payload is exactly one and a half times the ceiling:
\* up to MaxParts records, all but the last of a size taken from PartSizes, the
\* last one as long as it takes
MaxParts == MaxRecs + 1

PartSizes(limit) ==
    {limit \div 8, limit \div 4, (limit \div 2) - 100, (limit \div 2) - 10}

SizedList(sizes, last, ml) ==
    [i \in 1..(Len(sizes) + 1) |->
        [id |-> i, sz |-> IF i <= Len(sizes) THEN sizes[i] ELSE last, ml |-> ml]]

RECURSIVE SumSeq(_)
SumSeq(q) == IF q = <<>> THEN 0 ELSE Head(q) + SumSeq(Tail(q))

OneAndHalfLists(opstring, limit) ==
    IF (3 * limit) % 2 # 0 THEN {}
    ELSE LET total == (3 * limit) \div 2
             Last(sizes, ml) ==
                 total - (EnvelopeFixedLen + OpLen(opstring) + ml)
                       - SumSeq(sizes) - (ItemSepLen * Len(sizes))
         IN  UNION { { SizedList(sizes, Last(sizes, ml), ml) :
                         sizes \in {q \in [1..n -> PartSizes(limit)] : Last(q, ml) >= 2} } :
                     n \in 0..(MaxParts - 1), ml \in MonthLens }

-----------------------------------------------------------------------------
(* CloudZero.post_anycost_stream *)

CZAnycostOp == {"REPLACE_HOURLY", "REPLACE_DROP", "SUM"}

\* "Convert operation enum to string"
OpString(op) ==
    CASE op = "REPLACE_HOURLY" -> "replace_hourly"
      [] op = "REPLACE_DROP" -> "replace_drop"
      [] op = "SUM" -> "sum"

\* the chunking strategy: chunk only when the whole batch exceeds the safe limit
PlanChunks(recs, opstring) ==
    LET total_size == estimate_chunk_count(recs, opstring).total_size
        needs_chunking == total_size > SAFE_PAYLOAD_SIZE_BYTES
    IN  IF needs_chunking
        THEN chunk_data_by_size(recs, opstring, SAFE_PAYLOAD_SIZE_BYTES)
        ELSE <<recs>>

\* the payload _upload_chunk posts
UploadPayload_SumAfterFirst(chunk, opstring, n) ==
    [operation |-> IF n = 1 THEN opstring ELSE "sum", data |-> chunk]

UploadPayload(chunk, opstring, n) ==
    [operation |-> opstring, data |-> chunk]

\* one call of CloudZero.post as the sink sees it: the payload and whether it was accepted
UploadCall(payload, ok) ==
    [operation |-> payload.operation, data |-> payload.data, ok |-> ok]

\* the values post_anycost_stream hands back
RetPending == [kind |-> "pending", total_chunks |-> 0, successful_chunks |-> 0,
               failed_chunks |-> 0, records |-> 0, n_results |-> 0]
RetNothing == [RetPending EXCEPT !.kind = "No anycost data to post"]
RetRaised == [RetPending EXCEPT !.kind = "raised"]
RetSingle(n) == [RetPending EXCEPT !.kind = "response", !.records = n]
RetDryRun(n, k) == [RetPending EXCEPT !.kind = "dry_run", !.records = n, !.total_chunks = k]

ChunkedSummary(num_chunks, succ, total_records, res) ==
    [kind |-> "chunked_upload", total_chunks |-> num_chunks, successful_chunks |-> succ,
     failed_chunks |-> num_chunks - succ, records |-> total_records, n_results |-> Len(res)]

\* the artifacts _handle_dry_run_mode writes: suffix 0 is the unsuffixed file name
DryRunArtifacts_Unsuffixed(cs, opstring, labelled) ==
    IF ~labelled THEN <<>>
    ELSE [n \in 1..Len(cs) |-> [suffix |-> 0, operation |-> opstring, data |-> cs[n]]]

DryRunArtifacts(cs, opstring, labelled) ==
    IF ~labelled THEN <<>>
    ELSE IF Len(cs) = 1
         THEN <<[suffix |-> 0, operation |-> opstring, data |-> cs[1]]>>
         ELSE [n \in 1..Len(cs) |-> [suffix |-> n, operation |-> opstring, data |-> cs[n]]]

PostIdle ==
    /\ ppc = "start" /\ chunks = <<>> /\ chunk_num = 0 /\ results = <<>>
    /\ successful_chunks = 0 /\ uploads = <<>> /\ artifacts = <<>> /\ sleeps = 0
    /\ post_ret = RetPending

\* "if len(data) == 0"
NothingToPost_Never(recs) == FALSE

NothingToPost(recs) == Len(recs) = 0

\* post_anycost_stream up to the dispatch on DRY_RUN_MODE
PostCall ==
    /\ ppc = "start"
    /\ IF NothingToPost(data)
       THEN /\ post_ret' = RetNothing
            /\ ppc' = "returned"
            /\ UNCHANGED chunks
       ELSE /\ chunks' = PlanChunks(data, OpString(operation))
            /\ ppc' = IF dry_run_post THEN "dry_run" ELSE "normal"
            /\ UNCHANGED post_ret
    /\ UNCHANGED <<data, operation, max_size, dry_run_post, label_given, chunk_num, results,
                   successful_chunks, uploads, artifacts, sleeps, day_vars, run_vars, lib_vars>>

\* _handle_dry_run_mode
HandleDryRun ==
    /\ ppc = "dry_run"
    /\ artifacts' = DryRunArtifacts(chunks, OpString(operation), label_given)
    /\ post_ret' = RetDryRun(Len(Flatten(chunks)), Len(chunks))
    /\ ppc' = "returned"
    /\ UNCHANGED <<data, operation, max_size, dry_run_post, label_given, chunks, chunk_num,
                   results, successful_chunks, uploads, sleeps, day_vars, run_vars, lib_vars>>

\* _upload_chunk: the parsed response, or the exception of the post raised again
UploadChunkReturn_Swallowed(ok, n) == RetSingle(n)

UploadChunkReturn(ok, n) == IF ok THEN RetSingle(n) ELSE RetRaised

\* _handle_normal_mode, num_chunks == 1: one upload, its failure propagates
UploadSingle ==
    /\ ppc = "normal" /\ Len(chunks) = 1
    /\ \E ok \in BOOLEAN :
         /\ uploads' = Append(uploads,
                UploadCall(UploadPayload(chunks[1], OpString(operation), 1), ok))
         /\ post_ret' = UploadChunkReturn(ok, Len(chunks[1]))
    /\ ppc' = "returned"
    /\ UNCHANGED <<data, operation, max_size, dry_run_post, label_given, chunks, chunk_num,
                   results, successful_chunks, artifacts, sleeps, day_vars, run_vars, lib_vars>>

\* what the chunk loop does after a failed upload
AfterChunkFailure_Abort(n, num_chunks) == "summary"

AfterChunkFailure(n, num_chunks) == IF n < num_chunks THEN "normal" ELSE "summary"

\* _handle_normal_mode, one iteration of the chunk loop
UploadChunk ==
    /\ ppc = "normal" /\ Len(chunks) > 1 /\ chunk_num < Len(chunks)
    /\ LET n == chunk_num + 1
           num_chunks == Len(chunks)
       IN  /\ chunk_num' = n
           /\ \E ok \in BOOLEAN :
              /\ uploads' = Append(uploads,
                     UploadCall(UploadPayload(chunks[n], OpString(operation), n), ok))
              /\ IF ok
                 THEN /\ results' = Append(results, "response")
                      /\ successful_chunks' = successful_chunks + 1
                      /\ sleeps' = IF n < num_chunks THEN sleeps + 1 ELSE sleeps
                      /\ ppc' = IF n < num_chunks THEN "normal" ELSE "summary"
                 ELSE /\ results' = Append(results, "failed")
                      /\ ppc' = AfterChunkFailure(n, num_chunks)
                      /\ UNCHANGED <<successful_chunks, sleeps>>
    /\ UNCHANGED <<data, operation, max_size, dry_run_post, label_given, chunks, artifacts,
                   post_ret, day_vars, run_vars, lib_vars>>

\* _handle_normal_mode, "Return summary of chunked upload"
ChunkedReturn ==
    /\ ppc = "summary"
    /\ post_ret' = ChunkedSummary(Len(chunks), successful_chunks, Len(Flatten(chunks)), results)
    /\ ppc' = "returned"
    /\ UNCHANGED <<data, operation, max_size, dry_run_post, label_given, chunks, chunk_num,
                   results, successful_chunks, uploads, artifacts, sleeps, day_vars, run_vars, lib_vars>>

\* chunk_data_by_size called on its own
ChunkCall ==
    /\ ppc = "chunker"
    /\ chunks' = chunk_data_by_size(data, operation, max_size)
    /\ ppc' = "chunked"
    /\ UNCHANGED <<data, operation, max_size, dry_run_post, label_given, chunk_num, results,
                   successful_chunks, uploads, artifacts, sleeps, post_ret, day_vars, run_vars, lib_vars>>

-----------------------------------------------------------------------------
(* process_day_data *)

Services == <<"continuous logs", "frequent logs", "infrequent logs",
              "infrequent log scans", "metrics", "traces", "storage">>
NumServices == Len(Services)

\* day_stats as initialized by process_day_data; records maps service name -> count
FreshDayStats ==
    [records |-> <<>>, successful_services |-> 0, failed_services |-> 0,
     successful_services_list |-> <<>>, failed_services_list |-> <<>>]

\* What one service does when called: the extractor raises or returns n records,
\* and for n > 0 post_anycost_stream returns or raises post.
OutExtractorRaises == [raised |-> TRUE, n |-> 0, post |-> RetPending]
OutNoData == [raised |-> FALSE, n |-> 0, post |-> RetPending]
OutUploaded == [raised |-> FALSE, n |-> 2, post |-> RetSingle(2)]
OutUploadRaises == [raised |-> FALSE, n |-> 2, post |-> RetRaised]
OutChunkFailed ==
    [raised |-> FALSE, n |-> 2, post |-> ChunkedSummary(2, 1, 2, <<"response", "failed">>)]
OutDryRun == [raised |-> FALSE, n |-> 2, post |-> RetDryRun(2, 1)]

ServiceOutcomes(dry) ==
    IF dry
    THEN {OutExtractorRaises, OutNoData, OutDryRun, OutUploadRaises}
    ELSE {OutExtractorRaises, OutNoData, OutUploaded, OutUploadRaises, OutChunkFailed}

\* an exception reaches the service's except clause
ServiceRaises(out) == out.raised \/ (out.n > 0 /\ out.post.kind = "raised")

\* "Determine the correct operation based on service type"
ServiceOperation_AlwaysSum(service_name) == "SUM"

ServiceOperation(service_name) ==
    IF service_name = "continuous logs" THEN "REPLACE_DROP" ELSE "SUM"

TrackSuccess(stats, service_name, n) ==
    [stats EXCEPT !.records = (service_name :> n) @@ @,
                  !.successful_services = @ + 1,
                  !.successful_services_list = Append(@, service_name)]

TrackFailure_Recorded(stats, service_name) ==
    [stats EXCEPT !.records = (service_name :> 0) @@ @,
                  !.failed_services = @ + 1,
                  !.failed_services_list = Append(@, service_name)]

TrackFailure(stats, service_name) ==
    [stats EXCEPT !.failed_services = @ + 1,
                  !.failed_services_list = Append(@, service_name)]

\* the body of the service loop
ServiceStep_NoDataFails(stats, service_name, out) ==
    IF ServiceRaises(out) \/ out.n = 0
    THEN TrackFailure(stats, service_name)
    ELSE TrackSuccess(stats, service_name, out.n)

ServiceStep(stats, service_name, out) ==
    IF ServiceRaises(out)
    THEN TrackFailure(stats, service_name)
    ELSE TrackSuccess(stats, service_name, out.n)

\* "Continue with other services even if one fails"
AfterServiceFailure_Break(i) == NumServices + 1

AfterServiceFailure(i) == i + 1

NextService(i, out) == IF ServiceRaises(out) THEN AfterServiceFailure(i) ELSE i + 1

LogEntry(service_name, out) ==
    [service |-> service_name,
     raised |-> ServiceRaises(out),
     n |-> out.n,
     operation |-> IF ~out.raised /\ out.n > 0 THEN ServiceOperation(service_name) ELSE "none",
     post |-> IF ~out.raised /\ out.n > 0 THEN out.post.kind ELSE "none",
     failed_chunks |-> IF ~out.raised /\ out.n > 0 THEN out.post.failed_chunks ELSE 0]

\* the services the loop reaches, in order
VisitedServices(outs) ==
    LET Visit[i \in 1..(NumServices + 1)] ==
            IF i > NumServices THEN <<>>
            ELSE <<i>> \o Visit[NextService(i, outs[i])]
    IN  Visit[1]

\* day_stats after the loop body has run for each service reached
ProcessServices(visited, outs) ==
    LET Fold[k \in 0..Len(visited)] ==
            IF k = 0 THEN FreshDayStats
            ELSE ServiceStep(Fold[k - 1], Services[visited[k]], outs[visited[k]])
    IN  Fold[Len(visited)]

\* process_day_data as a function of what the seven services do
process_day_data(outs) == ProcessServices(VisitedServices(outs), outs)

\* one iteration of the service loop, the service doing out
ServiceIteration(out) ==
    /\ pd_stats' = ServiceStep(pd_stats, Services[svc_i], out)
    /\ svc_log' = Append(svc_log, LogEntry(Services[svc_i], out))
    /\ svc_i' = NextService(svc_i, out)
    /\ UNCHANGED <<dpc, extracted, earlier, chunk_vars, run_vars, lib_vars>>

\* one iteration of the service loop
DayService ==
    /\ dpc = "loop" /\ svc_i <= NumServices
    /\ \E out \in ServiceOutcomes(DRY_RUN_MODE) : ServiceIteration(out)

\* The same day processed by successive runs.  The extractors hold the same
\* records for the day at every call: extracted[i] records for service i.
NoExtraction == <<>>

\* the services that hold no records for the day: none, the first, the second, both
Extractions ==
    { [i \in 1..NumServices |-> IF i \in E THEN 0 ELSE OutUploaded.n] : E \in SUBSET {1, 2} }

\* the services that may fail at a call (the first and the third)
FailingServices == {1, 3}

\* what service i does at one call: its extractor returns what it holds and the
\* upload is accepted, or the extractor raises, or the upload raises
RedoOutcomes(i) ==
    (IF extracted[i] = 0 THEN {OutNoData} ELSE {OutUploaded})
    \cup (IF i \in FailingServices
          THEN {OutExtractorRaises} \cup (IF extracted[i] = 0 THEN {} ELSE {OutUploadRaises})
          ELSE {})

\* one iteration of the service loop over these extractors
RedoService ==
    /\ dpc = "loop" /\ svc_i <= NumServices
    /\ \E out \in RedoOutcomes(svc_i) : ServiceIteration(out)

\* a later run reaches the day again and calls process_day_data for it
DayAgain ==
    /\ dpc = "returned"
    /\ Len(earlier) < (MaxPasses - 1) * NumServices
    /\ earlier' = earlier \o svc_log
    /\ dpc' = "loop" /\ svc_i' = 1 /\ svc_log' = <<>> /\ pd_stats' = FreshDayStats
    /\ UNCHANGED <<extracted, chunk_vars, run_vars, lib_vars>>

\* return day_stats, first_service_processed
DayReturn ==
    /\ dpc = "loop" /\ svc_i > NumServices
    /\ dpc' = "returned"
    /\ UNCHANGED <<svc_i, svc_log, pd_stats, extracted, earlier, chunk_vars, run_vars, lib_vars>>

-----------------------------------------------------------------------------
(* BackfillState *)

\* sorted(list(S)) and set(q)
RECURSIVE sorted(_)
sorted(S) ==
    IF S = {} THEN <<>>
    ELSE LET least == CHOOSE d \in S : \A e \in S : d <= e
         IN  <<least>> \o sorted(S \ {least})

ToSet(q) == {q[i] : i \in DOMAIN q}

\* the state file: completed_days is the list save_state wrote
NoFile == [exists |-> FALSE, completed_days |-> <<>>, last_completed_day |-> NoDay,
           start_time |-> FALSE, is_dry_run |-> FALSE]

\* BackfillState.__init__
NewBackfillState(dry) ==
    [completed_days |-> {}, last_completed_day |-> NoDay, start_time |-> FALSE,
     is_dry_run |-> dry]

\* What a state file can hold, as far as load_existing_state tells contents apart.
\*   top: "missing" (no file), "not_json", "not_object" (a JSON list, string,
\*        number or null), "object"
\*   backfill_start, backfill_end: "ok" (the requested bound), "other" (another
\*        date), "missing" (no such key), "bad_string" (not ISO-8601),
\*        "not_string" (null or a number)
\*   completed_kind: "list" (of date strings), "missing", "not_iterable" (null
\*        or a number)
\*   start_time: "ok", "absent" (no key, or null), "bad_string", "not_string"
BoundKinds == {"ok", "other", "missing", "bad_string", "not_string"}
CompletedKinds == {"list", "missing", "not_iterable"}
StartTimeKinds == {"ok", "absent", "bad_string", "not_string"}

NoContent ==
    [top |-> "missing", backfill_start |-> "ok", backfill_end |-> "ok",
     completed_kind |-> "list", completed_days |-> <<>>, last_completed_day |-> NoDay,
     start_time |-> "absent", is_dry_run |-> FALSE]

\* datetime.fromisoformat(state_data[key]) for the two bounds: "value", or the
\* exception it ends with
ParseBound(kind) ==
    CASE kind = "missing" -> "KeyError"
      [] kind = "bad_string" -> "ValueError"
      [] kind = "not_string" -> "TypeError"
      [] OTHER -> "value"

\* except (json.JSONDecodeError, KeyError, ValueError)
Caught == {"JSONDecodeError", "KeyError", "ValueError"}

\* the end of load_existing_state when exception exc reaches its except clause
LoadFailed(exc, st) == [ret |-> IF exc \in Caught THEN "False" ELSE "raised", st |-> st]

\* "Load state", up to the statement that raises
AssignLoaded_DaysOnly(st, c) ==
    [st EXCEPT !.completed_days = ToSet(c.completed_days)]

AssignLoaded(st, c) ==
    [st EXCEPT !.completed_days = ToSet(c.completed_days),
               !.last_completed_day = c.last_completed_day]

\* load_existing_state on file content c: [ret, st], ret "True", "False" or "raised"
LoadContent(st, c) ==
    IF c.top = "missing" THEN [ret |-> "False", st |-> st]
    ELSE IF c.top = "not_json" THEN LoadFailed("JSONDecodeError", st)
    ELSE IF c.top = "not_object" THEN LoadFailed("TypeError", st)
    ELSE IF ParseBound(c.backfill_start) # "value"
         THEN LoadFailed(ParseBound(c.backfill_start), st)
    ELSE IF ParseBound(c.backfill_end) # "value"
         THEN LoadFailed(ParseBound(c.backfill_end), st)
    ELSE IF c.backfill_start # "ok" \/ c.backfill_end # "ok"
         THEN [ret |-> "False", st |-> st]
    ELSE IF c.completed_kind = "not_iterable" THEN LoadFailed("TypeError", st)
    ELSE LET st1 == AssignLoaded(st, c)
         IN  IF c.start_time = "bad_string" THEN LoadFailed("ValueError", st1)
             ELSE IF c.start_time = "not_string" THEN LoadFailed("TypeError", st1)
             ELSE [ret |-> "True",
                   st |-> [st1 EXCEPT !.start_time = (c.start_time = "ok"),
                                      !.is_dry_run = c.is_dry_run]]

\* the content of a state file written by save_state
ContentOf(f) ==
    [top |-> IF f.exists THEN "object" ELSE "missing",
     backfill_start |-> "ok", backfill_end |-> "ok",
     completed_kind |-> "list", completed_days |-> f.completed_days,
     last_completed_day |-> f.last_completed_day,
     start_time |-> IF f.start_time THEN "ok" ELSE "absent",
     is_dry_run |-> f.is_dry_run]

\* load_existing_state on the state file of the range
load_existing_state(st, f) ==
    LET r == LoadContent(st, ContentOf(f))
    IN  [loaded |-> r.ret = "True", st |-> r.st]

\* the bounded contents the call is applied to
Contents ==
    { [NoContent EXCEPT !.top = t] : t \in {"missing", "not_json", "not_object"} }
    \cup
    { [top |-> "object", backfill_start |-> bs, backfill_end |-> be,
       completed_kind |-> "list", completed_days |-> sorted(S), last_completed_day |-> l,
       start_time |-> t, is_dry_run |-> d] :
         bs \in BoundKinds, be \in BoundKinds, S \in SUBSET Days,
         l \in {NoDay} \cup Days, t \in StartTimeKinds, d \in BOOLEAN }
    \cup
    { [top |-> "object", backfill_start |-> "ok", backfill_end |-> "ok",
       completed_kind |-> k, completed_days |-> <<>>, last_completed_day |-> l,
       start_time |-> t, is_dry_run |-> d] :
         k \in {"missing", "not_iterable"},
         l \in {NoDay} \cup Days, t \in StartTimeKinds, d \in BOOLEAN }

\* one call of load_existing_state on a newly constructed BackfillState
LoadCall ==
    /\ lpc = "call"
    /\ LET r == LoadContent(lstate, content)
       IN  /\ lstate' = r.st
           /\ load_ret' = r.ret
    /\ lpc' = "done"
    /\ UNCHANGED <<content, backoff_vars, setup_vars, search_vars, chunk_vars, day_vars, run_vars>>

save_state(st, f) ==
    IF st.is_dry_run THEN f
    ELSE [exists |-> TRUE, completed_days |-> sorted(st.completed_days),
          last_completed_day |-> st.last_completed_day,
          start_time |-> st.start_time, is_dry_run |-> st.is_dry_run]

\* "Only mark as completed if all services were successful or had no data"
DayMayBeMarked_Always(stats) == TRUE

DayMayBeMarked(stats) == stats.failed_services = 0

mark_day_completed_NoSave(st, f, date, stats) ==
    IF DayMayBeMarked(stats)
    THEN [st |-> [st EXCEPT !.completed_days = @ \cup {date}, !.last_completed_day = date],
          file |-> f]
    ELSE [st |-> st, file |-> f]

mark_day_completed(st, f, date, stats) ==
    IF DayMayBeMarked(stats)
    THEN LET marked == [st EXCEPT !.completed_days = @ \cup {date},
                                  !.last_completed_day = date]
         IN  [st |-> marked, file |-> save_state(marked, f)]
    ELSE [st |-> st, file |-> f]

get_resume_date(st) ==
    IF st.last_completed_day = NoDay THEN 1
    ELSE LET resume_date == st.last_completed_day + 1
         IN  IF resume_date > NumDays THEN NoDay ELSE resume_date

is_backfill_complete_AnyDay(st) == st.completed_days # {}

is_backfill_complete(st) ==
    IF st.completed_days = {} THEN FALSE ELSE Days \subseteq st.completed_days

cleanup_state_file_Keep(f) == f

cleanup_state_file(f) == IF f.exists THEN NoFile ELSE f

-----------------------------------------------------------------------------
(* lambda_handler, backfill mode *)

\* The settings a run starts with.  The command line produces: no --resume,
\* --resume (automatic), --resume DATE (manual, DATE inside the range), each
\* with or without --dry-run.  The environment is read one variable at a time,
\* so it can also set AUTO_RESUME without RESUME_MODE.
RunConfigs ==
    { [dry |-> d, resume_mode |-> FALSE, auto_resume |-> a, resume_date |-> NoDay] :
        d \in BOOLEAN, a \in BOOLEAN }
    \cup { [dry |-> d, resume_mode |-> TRUE, auto_resume |-> TRUE, resume_date |-> NoDay] :
        d \in BOOLEAN }
    \cup { [dry |-> d, resume_mode |-> TRUE, auto_resume |-> FALSE, resume_date |-> r] :
        d \in BOOLEAN, r \in Days }

\* generate_date_range(backfill_start, backfill_end)
generate_date_range_Descending == [i \in 1..NumDays |-> NumDays + 1 - i]

generate_date_range == [i \in 1..NumDays |-> i]

\* "Filter date ranges to start from resume date"
FilterFrom(ranges, resume_date) ==
    LET skipped == Cardinality({i \in 1..Len(ranges) : ranges[i] < resume_date})
    IN  SubSeq(ranges, skipped + 1, Len(ranges))

\* what the services of one day do, as far as the driver can tell them apart:
\* none fails, or one extractor raises (the third, as in the tests)
FailSets == {{}, {3}}

DriverOutcomes(dry) ==
    { [i \in 1..NumServices |->
          IF i \in F THEN OutExtractorRaises
          ELSE IF dry THEN OutDryRun ELSE OutUploaded] : F \in FailSets }

\* "Track the entire day as failed"
DayFailedStats ==
    [records |-> <<>>, successful_services |-> 0, failed_services |-> NumServices,
     successful_services_list |-> <<>>, failed_services_list |-> Services]

\* the try/except around process_day_data: day_raised says process_day_data itself raised
DayResult_Uncaught(outs, day_raised) ==
    IF day_raised
    THEN [crashed |-> TRUE, stats |-> FreshDayStats]
    ELSE [crashed |-> FALSE, stats |-> process_day_data(outs)]

DayResult(outs, day_raised) ==
    IF day_raised
    THEN [crashed |-> FALSE, stats |-> DayFailedStats]
    ELSE [crashed |-> FALSE, stats |-> process_day_data(outs)]

Dates(stats_list) == [i \in 1..Len(stats_list) |-> stats_list[i].date]

FailedDays(stats_list) ==
    {stats_list[i].date : i \in {j \in 1..Len(stats_list) : stats_list[j].failed_services > 0}}

\* a date string of the environment: unset, a string that denotes no calendar
\* day, or the string of day d
NoDateString == [kind |-> "none", day |-> NoDay]
BadDateString == [kind |-> "bad", day |-> NoDay]
DateString(d) == [kind |-> "date", day |-> d]

NoEnv ==
    [BACKFILL_START_DATE |-> NoDateString, BACKFILL_END_DATE |-> NoDateString,
     RESUME_DATE |-> NoDateString]

\* "maximum: 1000 days"
MaxRangeDays == 1000

\* datetime.now(timezone.utc): the range of the model lies well in the past
Today == NumDays + MaxRangeDays

\* the day of 1 January 2020
Year2020 == 1 - (2 * MaxRangeDays)

ValueError == [raised |-> TRUE, day |-> NoDay]

\* validate_date_string: the day parsed, or ValueError
validate_date_string(date_str) ==
    IF date_str.kind = "none" THEN ValueError
    ELSE IF date_str.kind = "bad" THEN ValueError
    ELSE IF date_str.day < Year2020 THEN ValueError
    ELSE IF date_str.day > Today THEN ValueError
    ELSE [raised |-> FALSE, day |-> date_str.day]

ConfigError == [raised |-> TRUE, start |-> NoDay, end |-> NoDay]

\* validate_backfill_config with BACKFILL_MODE set: the bounds, or ValueError
validate_backfill_config_NoRangeLimit(e, resume_mode) ==
    LET start_dt == validate_date_string(e.BACKFILL_START_DATE)
        end_dt == validate_date_string(e.BACKFILL_END_DATE)
    IN  IF start_dt.raised \/ end_dt.raised THEN ConfigError
        ELSE [raised |-> FALSE, start |-> start_dt.day, end |-> end_dt.day]

validate_backfill_config(e, resume_mode) ==
    LET start_dt == validate_date_string(e.BACKFILL_START_DATE)
        end_dt == validate_date_string(e.BACKFILL_END_DATE)
        resume_dt == validate_date_string(e.RESUME_DATE)
    IN  IF start_dt.raised THEN ConfigError
        ELSE IF end_dt.raised THEN ConfigError
        ELSE IF start_dt.day > end_dt.day THEN ConfigError
        ELSE IF (end_dt.day - start_dt.day) + 1 > MaxRangeDays THEN ConfigError
        ELSE IF /\ resume_mode /\ e.RESUME_DATE.kind # "none"
                /\ (\/ resume_dt.raised
                    \/ resume_dt.day < start_dt.day
                    \/ resume_dt.day > end_dt.day)
             THEN ConfigError
        ELSE [raised |-> FALSE, start |-> start_dt.day, end |-> end_dt.day]

\* the environment of a run of the model's range with the flags cfg
EnvOf(cfg) ==
    [BACKFILL_START_DATE |-> DateString(1), BACKFILL_END_DATE |-> DateString(NumDays),
     RESUME_DATE |-> IF cfg.resume_date = NoDay THEN NoDateString
                     ELSE DateString(cfg.resume_date)]

\* the environments a run can be started with: the one of the model's range,
\* and that one with a date string replaced by a string that is unset,
\* denotes no day, lies before 2020 or in the future, puts the start after the
\* end, makes a range of more than MaxRangeDays days, or puts the resume date
\* outside the range
OtherStarts ==
    {NoDateString, BadDateString, DateString(Year2020 - 1), DateString(Today + 1),
     DateString(NumDays + 1), DateString(NumDays - MaxRangeDays)}
OtherEnds ==
    {NoDateString, BadDateString, DateString(Today + 1), DateString(1 - 1),
     DateString(1 + MaxRangeDays)}
OtherResumes ==
    {BadDateString, DateString(1 - 2), DateString(NumDays + 1), DateString(Today + 1)}

Envs(cfg) ==
    {EnvOf(cfg)}
    \cup {[EnvOf(cfg) EXCEPT !.BACKFILL_START_DATE = s] : s \in OtherStarts}
    \cup {[EnvOf(cfg) EXCEPT !.BACKFILL_END_DATE = s] : s \in OtherEnds}
    \cup {[EnvOf(cfg) EXCEPT !.RESUME_DATE = s] :
             s \in IF cfg.resume_mode /\ ~cfg.auto_resume THEN OtherResumes ELSE {}}

\* what can go wrong in the set-up besides the dates: load_environment_variables
\* exits, or the construction of a client raises
SetUpFaults == {"none", "env", "client"}

\* lambda_handler up to the construction of BackfillState
SetUp(e, cfg, fault) ==
    IF fault = "env" THEN "env_error"
    ELSE IF validate_backfill_config(e, cfg.resume_mode).raised THEN "config_error"
    ELSE IF fault = "client" THEN "client_error"
    ELSE IF cfg.auto_resume THEN "auto_resume" ELSE "fresh"

AbortedPcs == {"env_error", "config_error", "client_error"}

\* what lambda_handler hands to its caller at each of its exits
HandlerPending == [kind |-> "pending", statusCode |-> 0]
HandlerNone == [kind |-> "None", statusCode |-> 0]
HandlerRaised == [kind |-> "raised", statusCode |-> 0]

lambda_handler_ret ==
    IF pc \in {"returned", "summarised"} THEN HandlerNone
    ELSE IF pc \in AbortedPcs THEN HandlerRaised
    ELSE HandlerPending

\* process start: the environment is read, the configuration validated, the
\* clients and BackfillState constructed
StartRunWith(cfgs) ==
    /\ pc = "idle"
    /\ \E cfg \in cfgs :
         \E e \in Envs(cfg), fault \in SetUpFaults :
            /\ env' = e
            /\ DRY_RUN_MODE' = cfg.dry
            /\ RESUME_MODE' = cfg.resume_mode
            /\ AUTO_RESUME' = cfg.auto_resume
            /\ RESUME_DATE' = e.RESUME_DATE.day
            /\ pc' = SetUp(e, cfg, fault)
            /\ state' = IF pc' \in AbortedPcs THEN state ELSE NewBackfillState(cfg.dry)
    /\ UNCHANGED <<file, date_ranges, day_num, day_stats, daily_stats, prev_failed,
                   chunk_vars, day_vars, load_vars, backoff_vars, search_vars>>

StartRun == StartRunWith(RunConfigs)

\* the runs without a manual resume date: fresh runs, and runs with AUTO_RESUME
\* set (by --resume together with RESUME_MODE, or in the environment alone)
AutoConfigs == {cfg \in RunConfigs : cfg.auto_resume \/ ~cfg.resume_mode}

StartAutoRun == StartRunWith(AutoConfigs)

\* the exception of the set-up leaves lambda_handler and the process ends
AbortRun ==
    /\ pc \in AbortedPcs
    /\ pc' = "idle"
    /\ env' = NoEnv
    /\ DRY_RUN_MODE' = FALSE /\ RESUME_MODE' = FALSE /\ AUTO_RESUME' = FALSE
    /\ RESUME_DATE' = NoDay
    /\ UNCHANGED <<file, state, date_ranges, day_num, day_stats, daily_stats, prev_failed,
                   chunk_vars, day_vars, load_vars, backoff_vars, search_vars>>

\* AUTO_RESUME, state loaded, "Backfill already completed!"
AutoResumeComplete ==
    /\ pc = "auto_resume"
    /\ LET l == load_existing_state(state, file)
       IN  /\ l.loaded /\ is_backfill_complete(l.st)
           /\ state' = l.st
    /\ file' = cleanup_state_file(file)
    /\ pc' = "returned"
    /\ UNCHANGED <<DRY_RUN_MODE, RESUME_MODE, AUTO_RESUME, RESUME_DATE, date_ranges, day_num,
                   day_stats, daily_stats, prev_failed, chunk_vars, day_vars, lib_vars>>

\* what the driver does when get_resume_date() returns None
NoResumeDate(f) == cleanup_state_file(f)

\* AUTO_RESUME, state loaded, no resume date: "Auto resume: Backfill is complete!"
AutoResumeExhausted ==
    /\ pc = "auto_resume"
    /\ LET l == load_existing_state(state, file)
       IN  /\ l.loaded /\ ~is_backfill_complete(l.st)
           /\ get_resume_date(l.st) = NoDay
           /\ state' = l.st
    /\ file' = NoResumeDate(file)
    /\ pc' = "returned"
    /\ UNCHANGED <<DRY_RUN_MODE, RESUME_MODE, AUTO_RESUME, RESUME_DATE, date_ranges, day_num,
                   day_stats, daily_stats, prev_failed, chunk_vars, day_vars, lib_vars>>

\* AUTO_RESUME, state loaded, "Continuing from auto_resume_date"
AutoResumeContinue ==
    /\ pc = "auto_resume"
    /\ LET l == load_existing_state(state, file)
       IN  /\ l.loaded /\ ~is_backfill_complete(l.st)
           /\ get_resume_date(l.st) # NoDay
           /\ state' = l.st
           /\ RESUME_DATE' = get_resume_date(l.st)
    /\ pc' = "plan"
    /\ UNCHANGED <<DRY_RUN_MODE, RESUME_MODE, AUTO_RESUME, file, date_ranges, day_num,
                   day_stats, daily_stats, prev_failed, chunk_vars, day_vars, lib_vars>>

\* AUTO_RESUME, "No existing state file found, starting fresh backfill"
AutoResumeNoState ==
    /\ pc = "auto_resume"
    /\ ~load_existing_state(state, file).loaded
    /\ state' = [state EXCEPT !.start_time = TRUE]
    /\ pc' = "plan"
    /\ UNCHANGED <<DRY_RUN_MODE, RESUME_MODE, AUTO_RESUME, RESUME_DATE, file, date_ranges,
                   day_num, day_stats, daily_stats, prev_failed, chunk_vars, day_vars, lib_vars>>

\* not AUTO_RESUME: "Fresh start for non-auto-resume backfills"
FreshStart ==
    /\ pc = "fresh"
    /\ state' = [state EXCEPT !.start_time = TRUE]
    /\ pc' = "plan"
    /\ UNCHANGED <<DRY_RUN_MODE, RESUME_MODE, AUTO_RESUME, RESUME_DATE, file, date_ranges,
                   day_num, day_stats, daily_stats, prev_failed, chunk_vars, day_vars, lib_vars>>

\* the date list of the run: every day of the range, from the resume date on
PlanDays ==
    /\ pc = "plan"
    /\ date_ranges' = IF RESUME_MODE /\ RESUME_DATE # NoDay
                      THEN FilterFrom(generate_date_range, RESUME_DATE)
                      ELSE generate_date_range
    /\ day_num' = 0
    /\ daily_stats' = <<>>
    /\ pc' = "loop"
    /\ UNCHANGED <<DRY_RUN_MODE, RESUME_MODE, AUTO_RESUME, RESUME_DATE, file, state,
                   day_stats, prev_failed, chunk_vars, day_vars, lib_vars>>

\* the day loop up to the end of the try/except: start_day, process_day_data
ProcessDay ==
    /\ pc = "loop" /\ day_num < Len(date_ranges)
    /\ day_num' = day_num + 1
    /\ \E outs \in DriverOutcomes(DRY_RUN_MODE), day_raised \in BOOLEAN :
         LET r == DayResult(outs, day_raised)
         IN  /\ day_stats' = r.stats
             /\ pc' = IF r.crashed THEN "crashed" ELSE "commit"
    /\ UNCHANGED <<DRY_RUN_MODE, RESUME_MODE, AUTO_RESUME, RESUME_DATE, file, state,
                   date_ranges, daily_stats, prev_failed, chunk_vars, day_vars, lib_vars>>

\* the rest of the loop body: progress.complete_day, state.mark_day_completed
CommitDay ==
    /\ pc = "commit"
    /\ LET current_date == date_ranges[day_num]
           m == mark_day_completed(state, file, current_date, day_stats)
       IN  /\ daily_stats' = Append(daily_stats,
                                    [date |-> current_date,
                                     failed_services |-> day_stats.failed_services])
           /\ state' = m.st
           /\ file' = m.file
    /\ pc' = "loop"
    /\ UNCHANGED <<DRY_RUN_MODE, RESUME_MODE, AUTO_RESUME, RESUME_DATE, date_ranges, day_num,
                   day_stats, prev_failed, chunk_vars, day_vars, lib_vars>>

\* after the loop: the summary, and the clean-up of a complete backfill
SummaryComplete ==
    /\ pc = "loop" /\ day_num = Len(date_ranges)
    /\ is_backfill_complete(state)
    /\ file' = cleanup_state_file(file)
    /\ pc' = "summarised"
    /\ UNCHANGED <<DRY_RUN_MODE, RESUME_MODE, AUTO_RESUME, RESUME_DATE, state, date_ranges,
                   day_num, day_stats, daily_stats, prev_failed, chunk_vars, day_vars, lib_vars>>

\* after the loop: the summary of a backfill with days left
SummaryIncomplete ==
    /\ pc = "loop" /\ day_num = Len(date_ranges)
    /\ ~is_backfill_complete(state)
    /\ pc' = "summarised"
    /\ UNCHANGED <<DRY_RUN_MODE, RESUME_MODE, AUTO_RESUME, RESUME_DATE, file, state,
                   date_ranges, day_num, day_stats, daily_stats, prev_failed, chunk_vars,
                   day_vars, lib_vars>>

\* what is left when the process has gone: the state file, and for the record
\* the days the run left with failed services
ProcessGone ==
    /\ prev_failed' = FailedDays(daily_stats)
    /\ pc' = "idle"
    /\ state' = NewBackfillState(FALSE)
    /\ date_ranges' = <<>>
    /\ day_num' = 0
    /\ day_stats' = FreshDayStats
    /\ daily_stats' = <<>>
    /\ DRY_RUN_MODE' = FALSE /\ RESUME_MODE' = FALSE /\ AUTO_RESUME' = FALSE
    /\ RESUME_DATE' = NoDay
    /\ env' = NoEnv
    /\ UNCHANGED <<file, chunk_vars, day_vars, load_vars, backoff_vars, search_vars>>

\* the process is stopped from outside (operator interrupt, platform timeout)
Interrupt ==
    /\ pc \in {"auto_resume", "fresh", "plan", "loop", "commit"}
    /\ ProcessGone

\* lambda_handler returns and the process ends
EndRun ==
    /\ pc \in {"returned", "summarised"}
    /\ ProcessGone

-----------------------------------------------------------------------------
(* lambda_handler with its calls expanded: the day loop, the service loop of  *)
(* process_day_data and the chunk loop of post_anycost_stream, step by step  *)

\* what the extractors can return: nothing, one record, or two records that
\* take two chunks
OneRecord == <<[id |-> 1, sz |-> 3000000, ml |-> 10]>>
TwoChunkRecords == <<[id |-> 1, sz |-> 5000000, ml |-> 10], [id |-> 2, sz |-> 5000000, ml |-> 10]>>

\* "raises" stands for the extractor raising
SeqExtractions(i) ==
    IF i = 1 THEN {"raises", <<>>, OneRecord, TwoChunkRecords}
    ELSE IF i = 3 THEN {"raises", OneRecord}
    ELSE IF i = NumServices THEN {<<>>, TwoChunkRecords}
    ELSE {OneRecord}

\* the services whose uploads may be refused
UnreliableServices == {1, 3, NumServices}

\* "for day_num, (day_start, day_end) in enumerate(date_ranges, 1)" up to the
\* call of process_day_data and its initialisation of day_stats
SeqStartDay ==
    /\ pc = "loop" /\ day_num < Len(date_ranges)
    /\ day_num' = day_num + 1
    /\ pc' = "in_day"
    /\ dpc' = "loop" /\ svc_i' = 1 /\ svc_log' = <<>> /\ pd_stats' = FreshDayStats
    /\ UNCHANGED <<DRY_RUN_MODE, RESUME_MODE, AUTO_RESUME, RESUME_DATE, file, state,
                   date_ranges, day_stats, daily_stats, prev_failed, extracted, earlier,
                   chunk_vars, lib_vars>>

\* no call of post_anycost_stream is in progress
DispatcherAtRest == ppc \in {"unused", "returned"}

\* post_anycost_stream(data, operation, service_name, current_date) is entered
EnterPost(recs, op) ==
    /\ data' = recs /\ operation' = op
    /\ dry_run_post' = DRY_RUN_MODE /\ label_given' = TRUE
    /\ ppc' = "start"
    /\ chunks' = <<>> /\ chunk_num' = 0 /\ results' = <<>> /\ successful_chunks' = 0
    /\ uploads' = <<>> /\ artifacts' = <<>> /\ sleeps' = 0 /\ post_ret' = RetPending
    /\ UNCHANGED max_size

\* the service loop: data = data_getter(), and for a service with data the
\* call of cz.post_anycost_stream
SeqExtract ==
    /\ pc = "in_day" /\ dpc = "loop" /\ svc_i <= NumServices
    /\ DispatcherAtRest
    /\ \E x \in SeqExtractions(svc_i) :
         IF x = "raises" THEN ServiceIteration(OutExtractorRaises)
         ELSE IF x = <<>> THEN ServiceIteration(OutNoData)
         ELSE /\ EnterPost(x, ServiceOperation(Services[svc_i]))
              /\ dpc' = "posting"
              /\ UNCHANGED <<svc_i, svc_log, pd_stats, extracted, earlier, run_vars, lib_vars>>

\* the uploads of the services outside UnreliableServices are accepted
SeqUploadSingle ==
    /\ dpc = "posting"
    /\ UploadSingle
    /\ (svc_i \in UnreliableServices \/ uploads'[Len(uploads')].ok)

SeqUploadChunk ==
    /\ dpc = "posting"
    /\ UploadChunk
    /\ (svc_i \in UnreliableServices \/ uploads'[Len(uploads')].ok)

\* post_anycost_stream has returned or raised: the rest of the loop body
SeqPostReturn ==
    /\ dpc = "posting" /\ ppc = "returned"
    /\ LET out == [raised |-> FALSE, n |-> Len(data), post |-> post_ret]
       IN  /\ pd_stats' = ServiceStep(pd_stats, Services[svc_i], out)
           /\ svc_log' = Append(svc_log, LogEntry(Services[svc_i], out))
           /\ svc_i' = NextService(svc_i, out)
    /\ dpc' = "loop"
    /\ UNCHANGED <<extracted, earlier, chunk_vars, run_vars, lib_vars>>

\* process_day_data returns day_stats to the day loop
SeqDayReturn ==
    /\ pc = "in_day" /\ dpc = "loop" /\ svc_i > NumServices
    /\ day_stats' = pd_stats
    /\ pc' = "commit"
    /\ dpc' = "returned"
    /\ UNCHANGED <<DRY_RUN_MODE, RESUME_MODE, AUTO_RESUME, RESUME_DATE, file, state,
                   date_ranges, day_num, daily_stats, prev_failed, svc_i, svc_log, pd_stats,
                   extracted, earlier, chunk_vars, lib_vars>>

-----------------------------------------------------------------------------
(* backoff *)

MAX_TRIES == 10
NUMBER_OF_CALLS == 4
PERIOD == 1

\* delay = PERIOD / NUMBER_OF_CALLS * 2, in milliseconds
BaseDelay == ((PERIOD * 1000) \div NUMBER_OF_CALLS) * 2

\* HTTP statuses for which raise_for_status() raises, other than 429
OtherStatuses == {400, 401, 403, 404, 408, 409, 500, 502, 503, 504}

\* What one invocation of the wrapped function does: it returns the response,
\* raises an HTTPError carrying a response, raises a requests exception whose
\* response is None (no connection, timeout), or raises an exception that has
\* no response attribute.
AttemptOutcomes ==
    {[kind |-> "response", status |-> 200]}
    \cup {[kind |-> "http_error", status |-> c] : c \in {429} \cup OtherStatuses}
    \cup {[kind |-> "response_is_none", status |-> 0],
          [kind |-> "no_response_attribute", status |-> 0]}

NoOutcome == [kind |-> "none", status |-> 0, attempt |-> 0]

\* the outcome of invocation number n
Attempted(out, n) == [kind |-> out.kind, status |-> out.status, attempt |-> n]

\* "if e.response.status_code == 429"
RateLimited(out) == out.kind = "http_error" /\ out.status = 429

\* what leaves the except clause for a failure that is not rate-limited: the
\* bare raise re-raises e; evaluating e.response.status_code on an exception
\* without a response raises AttributeError instead
Propagated(e) ==
    IF e.kind = "http_error" THEN e
    ELSE [kind |-> "AttributeError", status |-> 0, attempt |-> e.attempt]

\* "delay = delay * 2"
NextDelay_Constant(d) == d

NextDelay(d) == d * 2

\* "while tries < MAX_TRIES"
MayTry_OnceMore(t) == t <= MAX_TRIES

MayTry(t) == t < MAX_TRIES

\* one pass of the while loop: func is invoked once
BackoffAttempt ==
    /\ bpc = "loop" /\ MayTry(tries)
    /\ calls' = calls + 1
    /\ \E out \in AttemptOutcomes :
         LET e == Attempted(out, calls + 1)
         IN  IF out.kind = "response"
             THEN /\ bpc' = "returned" /\ b_ret' = e
                  /\ UNCHANGED <<tries, delay, slept, lastException>>
             ELSE IF RateLimited(out)
             THEN /\ lastException' = e
                  /\ tries' = tries + 1
                  /\ slept' = Append(slept, delay)
                  /\ delay' = NextDelay(delay)
                  /\ UNCHANGED <<bpc, b_ret>>
             ELSE /\ bpc' = "raised" /\ b_ret' = Propagated(e)
                  /\ UNCHANGED <<tries, delay, slept, lastException>>
    /\ UNCHANGED <<load_vars, setup_vars, search_vars, chunk_vars, day_vars, run_vars>>

\* after the loop: "raise lastException"
BackoffExhausted ==
    /\ bpc = "loop" /\ ~MayTry(tries)
    /\ bpc' = "raised"
    /\ b_ret' = lastException
    /\ UNCHANGED <<tries, delay, calls, slept, lastException, load_vars, setup_vars, search_vars, chunk_vars,
                   day_vars, run_vars>>

-----------------------------------------------------------------------------
(* SumoLogic.search_job_records_sync *)

NUM_RECORDS == 1000

\* the states a search job reports, and the record counts drawn
JobStates ==
    {"NOT STARTED", "GATHERING RESULTS", "FORCE PAUSED", "DONE GATHERING RESULTS",
     "CANCELLED"}
RecordCounts == {0, 1, 999, 1000, 1001, 2000, 2500, 3000}

NoStatus == [state |-> "none", recordCount |-> 0]

\* what search_job_status can answer
Statuses == {[state |-> s, recordCount |-> n] : s \in JobStates, n \in RecordCounts}

\* "while status['state'] != 'DONE GATHERING RESULTS'", "if status['state'] == 'CANCELLED': break"
KeepsPolling(st) == st.state # "DONE GATHERING RESULTS" /\ st.state # "CANCELLED"

\* the call ends with the exception of a request
SearchRaises ==
    /\ spc' = "returned" /\ s_ret' = "raised"
    /\ UNCHANGED <<status, numrecords, iteration, jobrecords>>

\* search_job and the first search_job_status
SearchStart ==
    /\ spc = "call"
    /\ \/ \E st \in Statuses :
            /\ status' = st
            /\ numrecords' = st.recordCount
            /\ spc' = "wait"
            /\ UNCHANGED <<iteration, jobrecords, s_ret>>
       \/ SearchRaises
    /\ UNCHANGED <<load_vars, backoff_vars, setup_vars, chunk_vars, day_vars, run_vars>>

\* one iteration of the while loop: another search_job_status
SearchPoll ==
    /\ spc = "wait" /\ KeepsPolling(status)
    /\ \/ \E st \in Statuses :
            /\ status' = st
            /\ numrecords' = st.recordCount
            /\ UNCHANGED <<spc, iteration, jobrecords, s_ret>>
       \/ SearchRaises
    /\ UNCHANGED <<load_vars, backoff_vars, setup_vars, chunk_vars, day_vars, run_vars>>

\* the loop is left with a cancelled job: "return status"
SearchCancelled ==
    /\ spc = "wait" /\ status.state = "CANCELLED"
    /\ spc' = "returned" /\ s_ret' = "status"
    /\ UNCHANGED <<status, numrecords, iteration, jobrecords>>
    /\ UNCHANGED <<load_vars, backoff_vars, setup_vars, chunk_vars, day_vars, run_vars>>

\* the loop is left with a finished job: the fetch loop starts
SearchDone ==
    /\ spc = "wait" /\ status.state = "DONE GATHERING RESULTS"
    /\ spc' = "fetch" /\ iteration' = 1
    /\ UNCHANGED <<status, numrecords, jobrecords, s_ret>>
    /\ UNCHANGED <<load_vars, backoff_vars, setup_vars, chunk_vars, day_vars, run_vars>>

\* iterations = numrecords // self.NUM_RECORDS + 1
Iterations(n) == (n \div NUM_RECORDS) + 1

\* the records of the page at the given offset
PageLen(n, offset) ==
    IF n - offset > NUM_RECORDS THEN NUM_RECORDS
    ELSE IF n - offset > 0 THEN n - offset ELSE 0

\* one search_job_records request of the fetch loop
SearchFetch ==
    /\ spc = "fetch" /\ iteration <= Iterations(numrecords)
    /\ \/ /\ jobrecords' = jobrecords + PageLen(numrecords, (iteration - 1) * NUM_RECORDS)
          /\ iteration' = iteration + 1
          /\ UNCHANGED <<spc, status, numrecords, s_ret>>
       \/ SearchRaises
    /\ UNCHANGED <<load_vars, backoff_vars, setup_vars, chunk_vars, day_vars, run_vars>>

\* "return jobrecords"
SearchReturn ==
    /\ spc = "fetch" /\ iteration > Iterations(numrecords)
    /\ spc' = "returned" /\ s_ret' = "records"
    /\ UNCHANGED <<status, numrecords, iteration, jobrecords>>
    /\ UNCHANGED <<load_vars, backoff_vars, setup_vars, chunk_vars, day_vars, run_vars>>

-----------------------------------------------------------------------------
(* Specifications *)

ChunkRest ==
    /\ chunks = <<>> /\ chunk_num = 0 /\ results = <<>> /\ successful_chunks = 0
    /\ uploads = <<>> /\ artifacts = <<>> /\ sleeps = 0 /\ post_ret = RetPending

ChunkIdle ==
    /\ ppc = "unused" /\ data = <<>> /\ operation = "sum" /\ max_size = SAFE_PAYLOAD_SIZE_BYTES
    /\ dry_run_post = FALSE /\ label_given = FALSE
    /\ ChunkRest

DayIdle ==
    /\ dpc = "unused" /\ svc_i = 1 /\ svc_log = <<>> /\ pd_stats = FreshDayStats
    /\ extracted = NoExtraction /\ earlier = <<>>

RunIdle ==
    /\ pc = "idle"
    /\ DRY_RUN_MODE = FALSE /\ RESUME_MODE = FALSE /\ AUTO_RESUME = FALSE
    /\ RESUME_DATE = NoDay
    /\ file = NoFile
    /\ state = NewBackfillState(FALSE)
    /\ date_ranges = <<>> /\ day_num = 0
    /\ day_stats = FreshDayStats /\ daily_stats = <<>>
    /\ prev_failed = {}

LoadIdle ==
    /\ lpc = "unused" /\ content = NoContent
    /\ lstate = NewBackfillState(FALSE) /\ load_ret = "pending"

BackoffRest ==
    /\ tries = 0 /\ delay = BaseDelay /\ calls = 0 /\ slept = <<>>
    /\ lastException = NoOutcome /\ b_ret = NoOutcome

BackoffIdle == bpc = "unused" /\ BackoffRest

SetUpIdle == env = NoEnv

SearchRest == numrecords = 0 /\ iteration = 0 /\ jobrecords = 0 /\ s_ret = "pending"

SearchIdle == spc = "unused" /\ status = NoStatus /\ SearchRest

LibIdle == LoadIdle /\ BackoffIdle /\ SetUpIdle /\ SearchIdle

\* chunk_data_by_size on every bounded record list, label and ceiling, and on
\* the lists that take one and a half times the ceiling
InitChunk ==
    /\ ppc = "chunker"
    /\ operation \in Labels
    /\ max_size \in MaxSizes
    /\ data \in RecordLists \cup OneAndHalfLists(operation, max_size)
    /\ dry_run_post = FALSE /\ label_given = FALSE
    /\ ChunkRest
    /\ DayIdle /\ RunIdle /\ LibIdle

NextChunk == ChunkCall

SpecChunk == InitChunk /\ [][NextChunk]_vars

\* post_anycost_stream on every bounded batch, operation and mode
InitPost ==
    /\ ppc = "start"
    /\ data \in RecordLists
    /\ operation \in CZAnycostOp
    /\ max_size = SAFE_PAYLOAD_SIZE_BYTES
    /\ dry_run_post \in BOOLEAN
    /\ label_given \in BOOLEAN
    /\ ChunkRest
    /\ DayIdle /\ RunIdle /\ LibIdle

NextPost ==
    \/ PostCall
    \/ HandleDryRun
    \/ UploadSingle
    \/ UploadChunk
    \/ ChunkedReturn

SpecPost == InitPost /\ [][NextPost]_vars

\* process_day_data in normal and in dry-run mode
InitDay ==
    /\ dpc = "loop" /\ svc_i = 1 /\ svc_log = <<>> /\ pd_stats = FreshDayStats
    /\ extracted = NoExtraction /\ earlier = <<>>
    /\ ChunkIdle /\ LibIdle
    /\ pc = "day"
    /\ DRY_RUN_MODE \in BOOLEAN
    /\ RESUME_MODE = FALSE /\ AUTO_RESUME = FALSE /\ RESUME_DATE = NoDay
    /\ file = NoFile
    /\ state = NewBackfillState(DRY_RUN_MODE)
    /\ date_ranges = <<>> /\ day_num = 0
    /\ day_stats = FreshDayStats /\ daily_stats = <<>>
    /\ prev_failed = {}

NextDay ==
    \/ DayService
    \/ DayReturn

SpecDay == InitDay /\ [][NextDay]_vars

\* process_day_data called for the same day by successive runs in normal mode,
\* the extractors holding the same records at every call
InitRedo ==
    /\ dpc = "loop" /\ svc_i = 1 /\ svc_log = <<>> /\ pd_stats = FreshDayStats
    /\ extracted \in Extractions /\ earlier = <<>>
    /\ ChunkIdle /\ LibIdle
    /\ pc = "day"
    /\ DRY_RUN_MODE = FALSE
    /\ RESUME_MODE = FALSE /\ AUTO_RESUME = FALSE /\ RESUME_DATE = NoDay
    /\ file = NoFile
    /\ state = NewBackfillState(DRY_RUN_MODE)
    /\ date_ranges = <<>> /\ day_num = 0
    /\ day_stats = FreshDayStats /\ daily_stats = <<>>
    /\ prev_failed = {}

NextRedo ==
    \/ RedoService
    \/ DayReturn
    \/ DayAgain

SpecRedo == InitRedo /\ [][NextRedo]_vars

\* the driver: any number of runs over the range, the state file carried between them
Init == ChunkIdle /\ DayIdle /\ RunIdle /\ LibIdle

Next ==
    \/ StartRun
    \/ AutoResumeComplete
    \/ AutoResumeExhausted
    \/ AutoResumeContinue
    \/ AutoResumeNoState
    \/ FreshStart
    \/ PlanDays
    \/ ProcessDay
    \/ CommitDay
    \/ SummaryComplete
    \/ SummaryIncomplete
    \/ EndRun
    \/ AbortRun
    \/ Interrupt

Spec == Init /\ [][Next]_vars

\* the driver: any number of fresh runs and runs with automatic resume
NextAuto ==
    \/ StartAutoRun
    \/ AutoResumeComplete
    \/ AutoResumeExhausted
    \/ AutoResumeContinue
    \/ AutoResumeNoState
    \/ FreshStart
    \/ PlanDays
    \/ ProcessDay
    \/ CommitDay
    \/ SummaryComplete
    \/ SummaryIncomplete
    \/ EndRun
    \/ AbortRun
    \/ Interrupt

SpecAuto == Init /\ [][NextAuto]_vars

\* The state files a run can find: none, or the file save_state wrote after the
\* last successful day of an earlier run (Spec reaches every one of them, and
\* no other).
MaxDay(S) == CHOOSE d \in S : \A e \in S : e <= d

\* the state files earlier runs can leave: the last day marked is the last day
\* of the range if that one is completed, and any completed day otherwise
LastDays(S) == IF NumDays \in S THEN {MaxDay(S)} ELSE S

StateFiles ==
    {NoFile} \cup
    { [exists |-> TRUE, completed_days |-> sorted(f[1]), last_completed_day |-> f[2],
       start_time |-> TRUE, is_dry_run |-> FALSE] :
         f \in {g \in ((SUBSET Days) \ {{}}) \X Days : g[2] \in LastDays(g[1])} }

\* one run of the driver, from process start to its end, over any state file
InitRun ==
    /\ ChunkIdle /\ DayIdle /\ LoadIdle /\ BackoffIdle /\ SearchIdle
    /\ file \in StateFiles
    /\ \E cfg \in RunConfigs :
         /\ env = EnvOf(cfg)
         /\ DRY_RUN_MODE = cfg.dry
         /\ RESUME_MODE = cfg.resume_mode
         /\ AUTO_RESUME = cfg.auto_resume
         /\ RESUME_DATE = cfg.resume_date
         /\ state = NewBackfillState(cfg.dry)
         /\ pc = IF cfg.auto_resume THEN "auto_resume" ELSE "fresh"
    /\ date_ranges = <<>> /\ day_num = 0
    /\ day_stats = FreshDayStats /\ daily_stats = <<>>
    /\ prev_failed = {}

RunBody ==
    \/ AutoResumeComplete
    \/ AutoResumeExhausted
    \/ AutoResumeContinue
    \/ AutoResumeNoState
    \/ FreshStart
    \/ PlanDays
    \/ ProcessDay
    \/ CommitDay
    \/ SummaryComplete
    \/ SummaryIncomplete

NextRun ==
    \/ RunBody
    \/ Interrupt

\* a started run is a sequential process: unless it is stopped from outside it
\* keeps taking its next step
FairSpec == InitRun /\ [][NextRun]_vars /\ WF_vars(RunBody)

\* one run of the driver without automatic resume, from the date list on, with
\* the calls of process_day_data and post_anycost_stream expanded
InitSeq ==
    /\ ChunkIdle /\ DayIdle /\ LibIdle
    /\ pc = "plan"
    /\ DRY_RUN_MODE \in BOOLEAN
    /\ \E r \in Days \cup {NoDay} :
         /\ RESUME_MODE = (r # NoDay)
         /\ RESUME_DATE = r
    /\ AUTO_RESUME = FALSE
    /\ file = NoFile
    /\ state = NewBackfillState(DRY_RUN_MODE)
    /\ date_ranges = <<>> /\ day_num = 0
    /\ day_stats = FreshDayStats /\ daily_stats = <<>>
    /\ prev_failed = {}

NextSeq ==
    \/ PlanDays
    \/ SeqStartDay
    \/ SeqExtract
    \/ PostCall
    \/ HandleDryRun
    \/ SeqUploadSingle
    \/ SeqUploadChunk
    \/ ChunkedReturn
    \/ SeqPostReturn
    \/ SeqDayReturn
    \/ CommitDay
    \/ SummaryComplete
    \/ SummaryIncomplete

SpecSeq == InitSeq /\ [][NextSeq]_vars

\* load_existing_state applied to every bounded file content, on a newly
\* constructed BackfillState
InitLoad ==
    /\ lpc = "call" /\ content \in Contents
    /\ \E dry \in BOOLEAN : lstate = NewBackfillState(dry)
    /\ load_ret = "pending"
    /\ BackoffIdle /\ SetUpIdle /\ SearchIdle /\ ChunkIdle /\ DayIdle /\ RunIdle

NextLoad == LoadCall

SpecLoad == InitLoad /\ [][NextLoad]_vars

\* one call of a function wrapped by backoff, every invocation of the wrapped
\* function ending in any of AttemptOutcomes
InitBackoff ==
    /\ bpc = "loop" /\ BackoffRest
    /\ LoadIdle /\ SetUpIdle /\ SearchIdle /\ ChunkIdle /\ DayIdle /\ RunIdle

NextBackoff ==
    \/ BackoffAttempt
    \/ BackoffExhausted

SpecBackoff == InitBackoff /\ [][NextBackoff]_vars

\* one call of search_job_records_sync against a job that may report any state
\* and record count at every request; the call is sequential code, which takes
\* its next step as long as it has one
InitSearch ==
    /\ spc = "call" /\ status = NoStatus /\ SearchRest
    /\ LoadIdle /\ BackoffIdle /\ SetUpIdle /\ ChunkIdle /\ DayIdle /\ RunIdle

NextSearch ==
    \/ SearchStart
    \/ SearchPoll
    \/ SearchCancelled
    \/ SearchDone
    \/ SearchFetch
    \/ SearchReturn

SpecSearch == InitSearch /\ [][NextSearch]_vars /\ WF_vars(NextSearch)

-----------------------------------------------------------------------------
(* Properties *)

\* the day CommitDay has just handled
LastStat == daily_stats[Len(daily_stats)]

\* C1 (Spec): commit gating.  A mark_day_completed call for a day with
\* failed_services > 0 leaves completed_days, last_completed_day and the state
\* file as they were; a date enters the in-memory completed set only through a
\* mark_day_completed call with failed_services = 0 for that date (or by loading
\* it from the state file), and enters the state file only through such a call.
C1_CommitGating ==
    [][ /\ (pc = "commit" /\ pc' = "loop" /\ day_stats.failed_services > 0)
           => (state' = state /\ file' = file)
        /\ \A d \in Days :
             (d \in state'.completed_days /\ d \notin state.completed_days)
             => \/ /\ pc = "commit" /\ pc' = "loop"
                   /\ day_stats.failed_services = 0
                   /\ d = date_ranges[day_num]
                \/ /\ pc = "auto_resume"
                   /\ d \in ToSet(file.completed_days)
        /\ \A d \in Days :
             (d \in ToSet(file'.completed_days) /\ d \notin ToSet(file.completed_days))
             => /\ pc = "commit" /\ pc' = "loop"
                /\ day_stats.failed_services = 0
                /\ d = date_ranges[day_num] ]_vars

\* C1 witness: a day that failed in the previous run has failed again in this
\* one, a state file exists, and the day is in neither completed set.
C1_Witness ==
    /\ pc = "loop" /\ Len(daily_stats) > 0
    /\ LastStat.failed_services > 0
    /\ LastStat.date \in prev_failed
    /\ LastStat.date \notin state.completed_days
    /\ file.exists /\ LastStat.date \notin ToSet(file.completed_days)

\* C2 (Spec): retry guarantee.  When an automatic-resume run ends, every day the
\* previous run left with failed services has been processed again.
C2_RetryGuarantee ==
    (pc \in {"returned", "summarised"} /\ RESUME_MODE /\ AUTO_RESUME)
    => \A d \in prev_failed : \E i \in 1..Len(daily_stats) : daily_stats[i].date = d

\* C3 (Spec): the state file is deleted only when every day of the range is in
\* the completed set.
C3_CleanupOnlyWhenComplete ==
    [][ (file.exists /\ ~file'.exists) => Days \subseteq state'.completed_days ]_vars

\* C4 (Spec): in a run whose dry-run mode is on, mark_day_completed never writes
\* the state file.
C4_DryRunNeverWrites ==
    [][ (DRY_RUN_MODE /\ pc = "commit" /\ pc' = "loop") => file' = file ]_vars

\* the pipeline positions whose service raised
RaisedIdx == {j \in 1..Len(svc_log) : svc_log[j].raised}

\* C5 (SpecDay): partial-failure isolation.  The services are invoked in
\* pipeline order, the one after a raising service included; when
\* process_day_data returns, all seven were invoked, failed_services counts
\* exactly the services that raised and successful_services all the others,
\* and the two name lists hold them in pipeline order.
C5_PartialFailureIsolation ==
    /\ \A j \in 1..Len(svc_log) : svc_log[j].service = Services[j]
    /\ svc_i = Len(svc_log) + 1
    /\ dpc = "returned" =>
         LET Raised(name) == \E j \in RaisedIdx : svc_log[j].service = name
             NotRaised(name) == ~Raised(name)
         IN  /\ Len(svc_log) = NumServices
             /\ pd_stats.failed_services = Cardinality(RaisedIdx)
             /\ pd_stats.successful_services = NumServices - Cardinality(RaisedIdx)
             /\ pd_stats.failed_services_list = SelectSeq(Services, Raised)
             /\ pd_stats.successful_services_list = SelectSeq(Services, NotRaised)

\* C5 witness: service 3 of 7 raised, a later service returned no records, and
\* the day ended with one failure and six successes.
C5_Witness ==
    /\ dpc = "returned"
    /\ RaisedIdx = {3}
    /\ \E j \in 4..NumServices : svc_log[j].n = 0
    /\ pd_stats.failed_services = 1 /\ pd_stats.successful_services = 6

\* C6 (FairSpec): a failed service or a failed day never ends the run.  The
\* days handled so far are always the first days of the pending list, in order
\* and once each; the run never dies in the loop; and a run that entered the
\* loop reaches its final summary unless it is stopped from outside (the only
\* other way from the loop to "idle").
C6_RunSurvivesFailures ==
    /\ [](pc \in {"loop", "commit", "summarised"} =>
            Dates(daily_stats)
              = SubSeq(date_ranges, 1, IF pc = "commit" THEN day_num - 1 ELSE day_num))
    /\ [](pc = "summarised" => Dates(daily_stats) = date_ranges)
    /\ [](pc # "crashed")
    /\ ((pc = "loop") ~> (pc \in {"summarised", "idle"}))

\* C6 witness: the summary is reached after a run over the whole range in which
\* a whole day failed and another day had one failed service.
C6_Witness ==
    /\ pc = "summarised"
    /\ Len(daily_stats) = NumDays
    /\ \E i \in 1..Len(daily_stats) : daily_stats[i].failed_services = NumServices
    /\ \E i \in 1..Len(daily_stats) : daily_stats[i].failed_services = 1

\* C7 (SpecChunk): chunk completeness.  The chunks concatenated in order are the
\* input list, and no chunk is empty.
C7_ChunkCompleteness ==
    ppc = "chunked" =>
      /\ Flatten(chunks) = data
      /\ \A i \in 1..Len(chunks) : chunks[i] # <<>>

\* C7 witness: a list split into several chunks, one of them of several records.
C7_Witness ==
    /\ ppc = "chunked"
    /\ Len(chunks) >= 2
    /\ \E i \in 1..Len(chunks) : Len(chunks[i]) >= 2

\* C8 (SpecChunk): chunk bound.  A chunk of more than one record is no larger
\* than the ceiling, and a record that alone exceeds the ceiling is returned as
\* a chunk of its own.
C8_ChunkBound ==
    ppc = "chunked" =>
      /\ \A i \in 1..Len(chunks) :
           Len(chunks[i]) > 1 => calculate_payload_size(chunks[i], operation) <= max_size
      /\ \A j \in 1..Len(data) :
           calculate_payload_size(<<data[j]>>, operation) > max_size
           => \E i \in 1..Len(chunks) : chunks[i] = <<data[j]>>

\* C8 witness: under the 8 MB ceiling, one chunk of several records and one
\* oversized record in a chunk of its own.
C8_Witness ==
    /\ ppc = "chunked" /\ max_size = SAFE_PAYLOAD_SIZE_BYTES
    /\ \E i \in 1..Len(chunks) : Len(chunks[i]) > 1
    /\ \E i \in 1..Len(chunks) :
         Len(chunks[i]) = 1 /\ calculate_payload_size(chunks[i], operation) > max_size

\* C9 (SpecPost): chunk failure isolation.  In normal mode a batch split into
\* k >= 2 chunks gets one upload call per chunk handled so far, in chunk order;
\* when the call returns, k uploads were issued and the aggregate reports
\* total_chunks = k, successful_chunks + failed_chunks = k and k results.
C9_ChunkFailureIsolation ==
    (~dry_run_post /\ Len(chunks) >= 2) =>
      /\ Len(uploads) = chunk_num
      /\ \A i \in 1..Len(uploads) : uploads[i].data = chunks[i]
      /\ ppc \in {"summary", "returned"} => Len(uploads) = Len(chunks)
      /\ ppc = "returned" =>
           /\ post_ret.kind = "chunked_upload"
           /\ post_ret.total_chunks = Len(chunks)
           /\ post_ret.successful_chunks + post_ret.failed_chunks = Len(chunks)
           /\ post_ret.successful_chunks = Cardinality({i \in 1..Len(results) : results[i] = "response"})
           /\ post_ret.n_results = Len(chunks)

\* C9 witness: a chunked upload whose first chunk failed has returned.
C9_Witness ==
    /\ ~dry_run_post /\ ppc = "returned" /\ Len(chunks) >= 2
    /\ results[1] = "failed"
    /\ post_ret.failed_chunks >= 1 /\ post_ret.successful_chunks >= 1

\* C10 (SpecPost): every upload call of a batch carries the label of the
\* operation the caller passed, so all chunks of a batch carry the same one.
C10_SameOperationEveryChunk ==
    LET label == CASE operation = "REPLACE_DROP" -> "replace_drop"
                   [] operation = "SUM" -> "sum"
                   [] operation = "REPLACE_HOURLY" -> "replace_hourly"
    IN  \A i \in 1..Len(uploads) : uploads[i].operation = label

\* C10 witness: a REPLACE_DROP batch uploaded in several chunks.
C10_Witness ==
    /\ ppc = "returned" /\ operation = "REPLACE_DROP"
    /\ Len(uploads) >= 2


\* C11 (SpecDay): operation assignment.  Every service that has data is handed
\* to post_anycost_stream with REPLACE_DROP if it is the first of the pipeline
\* (continuous logs) and with SUM otherwise, whatever the other services
\* returned; a service without data or whose extractor raised is handed nothing.
C11_OperationAssignment ==
    \A j \in 1..Len(svc_log) :
        LET e == svc_log[j]
        IN  IF e.n > 0
            THEN e.operation = (IF j = 1 THEN "REPLACE_DROP" ELSE "SUM")
            ELSE e.operation = "none"

\* C11 witness: a day in which continuous logs and storage were uploaded and
\* a service between them returned no data and another raised.
C11_Witness ==
    /\ dpc = "returned"
    /\ svc_log[1].operation = "REPLACE_DROP"
    /\ svc_log[NumServices].operation = "SUM"
    /\ \E j \in 2..(NumServices - 1) : svc_log[j].n = 0 /\ ~svc_log[j].raised
    /\ \E j \in 2..(NumServices - 1) : svc_log[j].raised


\* C12 (Spec): resume point.  For the state loaded from the state file,
\* get_resume_date is the day after the latest completed day, or None when that
\* day is past the end of the range.
C12_ResumePoint ==
    file.exists =>
      LET st == load_existing_state(NewBackfillState(FALSE), file).st
          after == MaxDay(st.completed_days) + 1
      IN  get_resume_date(st) = (IF after > NumDays THEN NoDay ELSE after)


\* C13 (Spec): is_backfill_complete() is true if and only if every day of
\* [start, end] is in the completed set.
C13_IsCompleteIffAllDays ==
    is_backfill_complete(state) <=> (\A d \in Days : d \in state.completed_days)

\* C13 witness: the last day of a run has just been committed and the state
\* answers that the backfill is complete.
C13_Witness ==
    /\ pc = "loop" /\ Len(daily_stats) = NumDays
    /\ state.last_completed_day = NumDays
    /\ is_backfill_complete(state)


\* every day of the range was handled by this run, each with no failed service
AllDaysClean ==
    /\ Dates(daily_stats) = generate_date_range
    /\ \A i \in 1..Len(daily_stats) : daily_stats[i].failed_services = 0

C15_FailedLoadLeavesFreshState ==
    (lpc = "done" /\ load_ret = "False")
    => /\ lstate.completed_days = {}
       /\ lstate.last_completed_day = NoDay
       /\ lstate.start_time = FALSE

\* C16 (SpecLoad): load_existing_state returns True or False for every file
\* content; it never raises.
C16_LoadNeverRaises ==
    lpc = "done" => load_ret \in {"True", "False"}


\* the delay slept before retry j: base * 2^(j-1)
RetryDelay(j) == BaseDelay * 2^(j - 1)

\* C17 (SpecBackoff): backoff retry.  The delay slept before retry j is
\* base * 2^(j-1) with base = PERIOD / NUMBER_OF_CALLS * 2 (500 ms); a call that
\* returns on attempt k, after k-1 rate-limited attempts, returns that
\* attempt's result after exactly k invocations and k-1 sleeps, k <= MAX_TRIES.
C17_BackoffRetry ==
    /\ BaseDelay = 500
    /\ \A j \in 1..Len(slept) : slept[j] = RetryDelay(j)
    /\ bpc = "returned" =>
         /\ calls = tries + 1 /\ calls <= MAX_TRIES
         /\ Len(slept) = calls - 1
         /\ b_ret = [kind |-> "response", status |-> 200, attempt |-> calls]

\* C17 witness: rate-limited on attempts 1-3, the call returned on attempt 4
\* after sleeping 0.5 s, 1 s and 2 s.
C17_Witness ==
    /\ bpc = "returned" /\ calls = 4
    /\ slept = <<500, 1000, 2000>>

\* C18 (SpecBackoff): a failure that is not a rate-limit signal reaches the
\* caller as that same failure, with no further invocation and no sleep after
\* it; when it is the first attempt that fails, after exactly one invocation.
C18_OtherFailuresPropagate ==
    (bpc = "raised" /\ MayTry(tries)) =>
      /\ b_ret.kind \in {"http_error", "response_is_none", "no_response_attribute"}
      /\ ~RateLimited(b_ret)
      /\ b_ret.attempt = calls
      /\ calls = tries + 1 /\ Len(slept) = tries
      /\ tries = 0 => (calls = 1 /\ slept = <<>>)

\* C19 (SpecBackoff): backoff exhaustion.  The wrapped function is never
\* invoked more than MAX_TRIES times; after MAX_TRIES rate-limited attempts the
\* wrapper leaves its loop and raises the failure of the last attempt.
C19_BackoffExhaustion ==
    /\ MAX_TRIES = 10
    /\ calls <= MAX_TRIES
    /\ (bpc = "loop" /\ tries = calls /\ calls = MAX_TRIES) => ENABLED BackoffExhausted
    /\ (bpc = "raised" /\ tries = calls) =>
         /\ calls = MAX_TRIES
         /\ b_ret = [kind |-> "http_error", status |-> 429, attempt |-> MAX_TRIES]

\* C19 witness: every attempt was rate-limited and the wrapper has raised.
C19_Witness ==
    /\ bpc = "raised" /\ tries = MAX_TRIES /\ calls = MAX_TRIES
    /\ Len(slept) = MAX_TRIES
    /\ b_ret.status = 429


\* C20 (SpecPost): for an empty record list post_anycost_stream returns
\* 'No anycost data to post' with no upload call and no artifact, in normal and
\* in dry-run mode, and chunk_data_by_size returns no chunk.
C20_EmptyListNothingToUpload ==
    /\ \A op \in Labels, limit \in MaxSizes : chunk_data_by_size(<<>>, op, limit) = <<>>
    /\ data = <<>> =>
         /\ uploads = <<>> /\ artifacts = <<>> /\ chunks = <<>>
         /\ ppc \in {"start", "returned"}
         /\ ppc = "returned" => post_ret = RetNothing

\* C20 witness: the call has returned for an empty list in dry-run mode.
C20_Witness ==
    /\ data = <<>> /\ ppc = "returned" /\ dry_run_post
    /\ post_ret.kind = "No anycost data to post"

\* C21: in normal mode a non-empty batch whose serialized size does not exceed
\* the safe ceiling is sent in exactly one upload call that carries all its
\* records in order, and when that call fails the failure reaches the caller
\* of post_anycost_stream instead of a return value
C21_SingleUpload ==
    (/\ ppc = "returned" /\ ~dry_run_post /\ Len(data) > 0
     /\ calculate_payload_size(data, OpString(operation)) <= SAFE_PAYLOAD_SIZE_BYTES)
    => /\ Len(uploads) = 1
       /\ uploads[1].data = data
       /\ uploads[1].operation = OpString(operation)
       /\ uploads[1].ok => post_ret = RetSingle(Len(data))
       /\ ~uploads[1].ok => post_ret = RetRaised

\* a batch of two records under the ceiling whose only upload call failed
C21_Witness ==
    /\ ppc = "returned" /\ ~dry_run_post /\ Len(data) = 2
    /\ calculate_payload_size(data, OpString(operation)) <= SAFE_PAYLOAD_SIZE_BYTES
    /\ Len(uploads) = 1 /\ ~uploads[1].ok /\ post_ret = RetRaised

NoDataIdx == {j \in 1..Len(svc_log) : ~svc_log[j].raised /\ svc_log[j].n = 0}

\* C23: a service whose extractor returns zero records is recorded with
\* record count 0 in the successful services and never in the failed ones, and
\* when no service of the day raised, mark_day_completed adds the day to the
\* completed set whatever number of services had no data
C23_NoDataIsSuccess ==
    LET InList(list, name) == \E k \in 1..Len(list) : list[k] = name
    IN  /\ \A j \in NoDataIdx :
             /\ svc_log[j].service \in DOMAIN pd_stats.records
             /\ pd_stats.records[svc_log[j].service] = 0
             /\ InList(pd_stats.successful_services_list, svc_log[j].service)
             /\ ~InList(pd_stats.failed_services_list, svc_log[j].service)
        /\ pd_stats.successful_services >= Cardinality(NoDataIdx)
        /\ (dpc = "returned" /\ RaisedIdx = {}) =>
             1 \in mark_day_completed(NewBackfillState(FALSE), NoFile, 1,
                                      pd_stats).st.completed_days

\* a day on which every one of the seven extractors returned zero records
C23_Witness ==
    /\ dpc = "returned"
    /\ NoDataIdx = 1..NumServices
    /\ pd_stats.successful_services = NumServices /\ pd_stats.failed_services = 0
    /\ 1 \in mark_day_completed(NewBackfillState(FALSE), NoFile, 1,
                                 pd_stats).st.completed_days

\* C24: lambda_handler returns a status object, with statusCode 200 when the
\* run completes and with statusCode 500 when loading the configuration or
\* constructing a client raises
C24_StatusObject ==
    /\ pc \in {"returned", "summarised"}
         => lambda_handler_ret = [kind |-> "status", statusCode |-> 200]
    /\ pc \in {"env_error", "client_error"}
         => lambda_handler_ret = [kind |-> "status", statusCode |-> 500]

\* a date string that cannot be used: unset, denoting no day, or in the future
Unusable(date_str) == date_str.kind # "date" \/ date_str.day > Today

\* an invalid backfill configuration: an unusable start or end date, the start
\* after the end, a range of more than 1000 days, or when resuming from a
\* given date, a resume date that is unusable or outside the range
InvalidConfig(e, resume_mode) ==
    LET s == e.BACKFILL_START_DATE
        t == e.BACKFILL_END_DATE
        r == e.RESUME_DATE
    IN  \/ Unusable(s) \/ Unusable(t)
        \/ s.day > t.day
        \/ (t.day - s.day) + 1 > 1000
        \/ /\ resume_mode /\ r.kind # "none"
           /\ (Unusable(r) \/ r.day < s.day \/ r.day > t.day)

\* C25: a run started with an invalid backfill configuration goes from the
\* process start straight to an abort, and from there to the end of the
\* process, and neither step reads, writes or deletes the state file,
\* constructs the state object, or calls an extractor or the sink
C25_InvalidConfigAborts ==
    [][/\ (pc = "idle" /\ pc' # "idle" /\ InvalidConfig(env', RESUME_MODE'))
           => /\ pc' \in AbortedPcs
              /\ UNCHANGED <<file, state, date_ranges, day_num, day_stats, daily_stats,
                             chunk_vars, day_vars>>
       /\ (pc \in AbortedPcs)
           => /\ pc' = "idle"
              /\ UNCHANGED <<file, state, date_ranges, day_num, day_stats, daily_stats,
                             chunk_vars, day_vars>>]_vars

\* a run over a range of 1001 days is aborted while the state file of an
\* earlier run exists
C25_Witness ==
    /\ pc = "config_error"
    /\ env.BACKFILL_START_DATE = DateString(1)
    /\ env.BACKFILL_END_DATE = DateString(1001)
    /\ file.exists

\* the call was handed a list whose payload is one and a half times the ceiling
OneAndHalf == 2 * calculate_payload_size(data, operation) = 3 * max_size

\* two chunks, each within the ceiling, holding as many records as the input
TwoChunksWithinCeiling ==
    /\ Len(chunks) = 2
    /\ \A i \in 1..Len(chunks) : calculate_payload_size(chunks[i], operation) <= max_size
    /\ Len(chunks[1]) + Len(chunks[2]) = Len(data)

\* C26 as stated: every record list whose payload is one and a half times the
\* ceiling is returned as exactly two chunks, each within the ceiling, whose
\* record counts add up to the length of the input
C26_AsStated ==
    (ppc = "chunked" /\ data # <<>> /\ OneAndHalf) => TwoChunksWithinCeiling

\* C26 amended: a record list whose payload is one and a half times the
\* ceiling, and each of whose records sent alone takes at most half the
\* ceiling, is returned as exactly two chunks, each within the ceiling, whose
\* record counts add up to the length of the input
C26_TwoChunks ==
    (/\ ppc = "chunked" /\ data # <<>> /\ OneAndHalf
     /\ \A j \in 1..Len(data) :
          2 * calculate_payload_size(<<data[j]>>, operation) <= max_size)
    => TwoChunksWithinCeiling

\* four records, none above half the ceiling, that add up to one and a half
\* times the 8 MB ceiling, returned as two chunks
C26_Witness ==
    /\ ppc = "chunked" /\ OneAndHalf /\ max_size = SAFE_PAYLOAD_SIZE_BYTES
    /\ Len(data) = 4
    /\ \A j \in 1..Len(data) :
          2 * calculate_payload_size(<<data[j]>>, operation) <= max_size
    /\ Len(chunks) = 2

C28_SearchTerminates == <>(spc = "returned")

\* The sink as the specification describes it: it holds a bag of records for
\* the billing period; an accepted REPLACE_DROP upload overwrites what it
\* holds with the records of the call, an accepted SUM upload adds them.
SeqToBag(q) == [x \in ToSet(q) |-> Cardinality({i \in DOMAIN q : q[i] = x})]

ApplyUpload(sink, call) ==
    IF ~call.ok THEN sink
    ELSE CASE call.operation = "replace_drop" -> SeqToBag(call.data)
           [] call.operation = "sum" -> sink (+) SeqToBag(call.data)

\* the sink after a sequence of upload calls
SinkAfter(sink, posts) ==
    LET After[k \in 0..Len(posts)] ==
            IF k = 0 THEN sink ELSE ApplyUpload(After[k - 1], posts[k])
    IN  After[Len(posts)]

\* what the sink holds before the batch: nothing, or a record of earlier data
ResidualRecord == [id |-> 0, sz |-> 3000000, ml |-> 10]
InitialSinks == {EmptyBag, SetToBag({ResidualRecord})}

\* C29: a REPLACE_DROP or SUM batch uploaded as two or more chunks that all
\* succeeded leaves the sink as one accepted call carrying the whole batch
\* with the same operation would
C29_ChunkingPreservesSink ==
    (/\ ppc = "returned" /\ ~dry_run_post /\ operation \in {"REPLACE_DROP", "SUM"}
     /\ Len(chunks) >= 2 /\ Len(uploads) = Len(chunks)
     /\ \A i \in 1..Len(uploads) : uploads[i].ok)
    => \A sink \in InitialSinks :
         SinkAfter(sink, uploads)
           = ApplyUpload(sink, UploadCall(UploadPayload(data, OpString(operation), 1), TRUE))

\* the records service_name uploads for the day
ServiceData(service_name, n) == [k \in 1..n |-> [service |-> service_name, id |-> k]]

\* the upload call of a log entry of process_day_data, as the sink sees it
DayUpload(e) ==
    UploadCall(UploadPayload(ServiceData(e.service, e.n), OpString(e.operation), 1),
               e.post = "response")

\* what the sink holds for the day after the calls of log, starting empty
DaySink(log) ==
    LET sent == SelectSeq(log, LAMBDA e : e.operation # "none")
    IN  SinkAfter(EmptyBag, [k \in 1..Len(sent) |-> DayUpload(sent[k])])

\* the calls of one processing of the day in which no service fails
FullPassLog ==
    [i \in 1..NumServices |->
        LogEntry(Services[i], IF extracted[i] = 0 THEN OutNoData ELSE OutUploaded)]

\* C30: when a day has been processed again and the last processing had no
\* failed service, the sink holds what one processing without failures leaves:
\* the records of each service exactly once
C30_ReprocessingIsIdempotent ==
    (dpc = "returned" /\ Len(earlier) >= NumServices /\ pd_stats.failed_services = 0)
    => DaySink(earlier \o svc_log) = DaySink(FullPassLog)

\* the entries of the day's log for which post_anycost_stream was called
UploadIdx == {j \in 1..Len(svc_log) : svc_log[j].operation # "none"}

\* C31: in normal mode the first upload call issued for a day carries
\* REPLACE_DROP
C31_FirstUploadReplaces ==
    ~DRY_RUN_MODE =>
        \A j \in UploadIdx :
            (\A k \in UploadIdx : j <= k) => svc_log[j].operation = "REPLACE_DROP"

\* the services of the day whose upload reported failed chunks
ChunkFailedIdx == {j \in 1..Len(svc_log) : svc_log[j].failed_chunks > 0}

\* C32: a day in which a chunk of an upload failed has failed_services > 0
\* and mark_day_completed does not add it to the completed set
C32_ChunkFailureFailsDay ==
    (dpc = "returned" /\ ~DRY_RUN_MODE /\ ChunkFailedIdx # {})
    => /\ pd_stats.failed_services > 0
       /\ mark_day_completed(state, file, 1, pd_stats).st.completed_days = state.completed_days

\* C33: no step of a run whose dry-run mode is on rewrites or deletes a state
\* file that exists
C33_DryRunLeavesFile ==
    [][ (DRY_RUN_MODE /\ file.exists) => file' = file ]_vars

\* C34: during a chunked upload one pause has been made after every chunk
\* handled so far except the last chunk of the batch, so k chunks take k - 1
\* pauses whether the chunks succeeded or failed
C34_PauseBetweenChunks ==
    (~dry_run_post /\ Len(chunks) >= 2 /\ ppc \in {"normal", "summary", "returned"})
    => sleeps = IF chunk_num < Len(chunks) THEN chunk_num ELSE Len(chunks) - 1

\* the days of the run's list are in strictly ascending order, and the days
\* handled so far are the first days of the list, once each
DaysInOrder ==
    /\ \A i, j \in 1..Len(date_ranges) : i < j => date_ranges[i] < date_ranges[j]
    /\ pc \in {"loop", "in_day", "commit", "summarised"} =>
          Dates(daily_stats)
            = SubSeq(date_ranges, 1, IF pc \in {"in_day", "commit"} THEN day_num - 1 ELSE day_num)

\* the services handled so far in the day are the first of the pipeline, in
\* its order, and the service at hand is the next one
ServicesInOrder ==
    pc = "in_day" =>
      /\ \A j \in 1..Len(svc_log) : svc_log[j].service = Services[j]
      /\ svc_i = Len(svc_log) + 1

\* a step in which the service loop calls an extractor
ExtractorCalled == pc = "in_day" /\ dpc = "loop" /\ (svc_log' # svc_log \/ dpc' = "posting")

\* every upload of the last call of post_anycost_stream has been issued and
\* the call has returned
UploadsReturned ==
    \/ ppc = "unused"
    \/ /\ ppc = "returned"
       /\ dry_run_post \/ Len(uploads) = Len(chunks)

\* C35: within a run the days are processed in strictly ascending order and
\* once each, within a day the services are handled in pipeline order, and an
\* extractor is called only when every upload of the previous service has
\* returned
C35_SequentialOrder ==
    /\ [](DaysInOrder /\ ServicesInOrder)
    /\ [][ExtractorCalled => UploadsReturned]_vars

\* C35 witness: a run over the whole range has reached its summary, the last
\* day with a first service whose extractor raised, a third service whose
\* upload was refused and a last service uploaded in two chunks
C35_Witness ==
    /\ pc = "summarised" /\ Len(daily_stats) = NumDays
    /\ Len(svc_log) = NumServices
    /\ svc_log[1].raised /\ svc_log[1].n = 0
    /\ svc_log[3].post = "raised"
    /\ svc_log[NumServices].post = "chunked_upload"
    /\ Len(uploads) = 2

\* the completed days the state file holds
FileDays == IF file.exists THEN ToSet(file.completed_days) ELSE {}

\* the driver is about to start processing a day in normal mode
DayAboutToStart == ~DRY_RUN_MODE /\ pc = "loop" /\ day_num < Len(date_ranges)

\* a day of this run finished with zero failures
DaySucceeded == \E i \in 1..Len(daily_stats) : daily_stats[i].failed_services = 0

LastIsMax(days, last) ==
    IF days = {} THEN last = NoDay
    ELSE last \in days /\ \A d \in days : d <= last

\* C37: over fresh runs and runs with automatic resume, last_completed_day is
\* the maximum of completed_days, and unset when completed_days is empty, in
\* the BackfillState object and in the state file
C37_LastIsMaximum ==
    /\ LastIsMax(state.completed_days, state.last_completed_day)
    /\ file.exists => LastIsMax(ToSet(file.completed_days), file.last_completed_day)

\* C38: a run with automatic resume never starts processing a day that is in
\* its completed set (the days loaded from the state file and the days it has
\* completed itself)
C38_CompletedDaysSkipped ==
    [][ (AUTO_RESUME /\ pc = "loop" /\ day_num' = day_num + 1)
        => date_ranges[day_num'] \notin state.completed_days ]_vars

InPipelineOrder(q) ==
    LET pos(name) == CHOOSE i \in 1..NumServices : Services[i] = name
    IN  /\ \A k \in 1..Len(q) : q[k] \in ToSet(Services)
        /\ \A k \in 1..(Len(q) - 1) : pos(q[k]) < pos(q[k + 1])

\* C40: the day_stats process_day_data returns partition the pipeline: the two
\* counters add up to the number of services and are the lengths of the two
\* name lists, the lists are disjoint, each in pipeline order, and together
\* hold every service, and records has an entry for exactly the successful
\* services
C40_DayStatsPartition ==
    dpc = "returned" =>
      LET ok == pd_stats.successful_services_list
          ko == pd_stats.failed_services_list
      IN  /\ pd_stats.successful_services + pd_stats.failed_services = NumServices
          /\ Len(ok) = pd_stats.successful_services
          /\ Len(ko) = pd_stats.failed_services
          /\ ToSet(ok) \cap ToSet(ko) = {}
          /\ ToSet(ok) \cup ToSet(ko) = ToSet(Services)
          /\ InPipelineOrder(ok) /\ InPipelineOrder(ko)
          /\ DOMAIN pd_stats.records = ToSet(ok)

\* C40 witness: a day has returned with services that uploaded, services
\* without data, an extractor that raised and an upload that raised
C40_Witness ==
    /\ dpc = "returned"
    /\ pd_stats.failed_services >= 2 /\ pd_stats.successful_services >= 2
    /\ \E j \in 1..Len(svc_log) : svc_log[j].raised /\ svc_log[j].n = 0
    /\ \E j \in 1..Len(svc_log) : svc_log[j].raised /\ svc_log[j].n > 0
    /\ \E j \in 1..Len(svc_log) : ~svc_log[j].raised /\ svc_log[j].n = 0
    /\ \E j \in 1..Len(svc_log) : ~svc_log[j].raised /\ svc_log[j].n > 0

=============================================================================
